---- MODULE Spec2Model ----
(***************************************************************************)
(* Risk classification and safety enforcement of supabase-mcp-server:      *)
(* the SQL statement classifier, the API path classifier, the policy of    *)
(* the safety manager with its confirmation store, and the orchestration   *)
(* of handle_query / handle_confirmation / execute_request.                *)
(*                                                                         *)
(* The server runs on one asyncio event loop: a handler runs atomically    *)
(* from one await of the execution client to the next.  Each action below  *)
(* is one such synchronous segment.                                        *)
(***************************************************************************)
EXTENDS Integers, Sequences, FiniteSets, TLC

\* ---------------------------------------------------------------- bounds
NumCallers == 2
MaxConfirmations == 1

\* ------------------------------------------------------------ risk model
LOW == 1
MEDIUM == 2
HIGH == 3
EXTREME == 4
OperationRiskLevel == {LOW, MEDIUM, HIGH, EXTREME}

SAFE == "safe"
UNSAFE == "unsafe"
SafetyMode == {SAFE, UNSAFE}

DATABASE == "database"
API == "api"
ClientType == {DATABASE, API}

\* Confirmation time-to-live, in minutes.
CONFIRMATION_TTL == 5

\* --------------------------------------------------- SQL classification
\* STATEMENT_CONFIG, one row per statement class:
\* <<class, category, risk_level, needs_migration>>.
StatementConfigRows ==
  {
    <<"SelectStmt",          "DQL",                LOW,    FALSE>>,
    <<"ExplainStmt",         "POSTGRES_SPECIFIC",  LOW,    FALSE>>,
    <<"InsertStmt",          "DML",                MEDIUM, FALSE>>,
    <<"UpdateStmt",          "DML",                MEDIUM, FALSE>>,
    <<"DeleteStmt",          "DML",                MEDIUM, FALSE>>,
    <<"MergeStmt",           "DML",                MEDIUM, FALSE>>,
    <<"CreateStmt",          "DDL",                MEDIUM, TRUE>>,
    <<"CreateTableAsStmt",   "DDL",                MEDIUM, TRUE>>,
    <<"CreateSchemaStmt",    "DDL",                MEDIUM, TRUE>>,
    <<"CreateExtensionStmt", "DDL",                MEDIUM, TRUE>>,
    <<"AlterTableStmt",      "DDL",                MEDIUM, TRUE>>,
    <<"AlterDomainStmt",     "DDL",                MEDIUM, TRUE>>,
    <<"CreateFunctionStmt",  "DDL",                MEDIUM, TRUE>>,
    <<"IndexStmt",           "DDL",                MEDIUM, TRUE>>,
    <<"CreateTrigStmt",      "DDL",                MEDIUM, TRUE>>,
    <<"ViewStmt",            "DDL",                MEDIUM, TRUE>>,
    <<"CommentStmt",         "DDL",                MEDIUM, TRUE>>,
    <<"DropStmt",            "DDL",                HIGH,   TRUE>>,
    <<"TruncateStmt",        "DDL",                HIGH,   TRUE>>,
    <<"GrantStmt",           "DCL",                MEDIUM, TRUE>>,
    <<"GrantRoleStmt",       "DCL",                MEDIUM, TRUE>>,
    <<"RevokeStmt",          "DCL",                MEDIUM, TRUE>>,
    <<"RevokeRoleStmt",      "DCL",                MEDIUM, TRUE>>,
    <<"CreateRoleStmt",      "DCL",                MEDIUM, TRUE>>,
    <<"AlterRoleStmt",       "DCL",                MEDIUM, TRUE>>,
    <<"DropRoleStmt",        "DCL",                HIGH,   TRUE>>,
    <<"TransactionStmt",     "TCL",                LOW,    FALSE>>,
    <<"VacuumStmt",          "POSTGRES_SPECIFIC",  MEDIUM, FALSE>>,
    <<"AnalyzeStmt",         "POSTGRES_SPECIFIC",  LOW,    FALSE>>,
    <<"ClusterStmt",         "POSTGRES_SPECIFIC",  MEDIUM, FALSE>>,
    <<"CheckPointStmt",      "POSTGRES_SPECIFIC",  MEDIUM, FALSE>>,
    <<"PrepareStmt",         "POSTGRES_SPECIFIC",  LOW,    FALSE>>,
    <<"ExecuteStmt",         "POSTGRES_SPECIFIC",  MEDIUM, FALSE>>,
    <<"DeallocateStmt",      "POSTGRES_SPECIFIC",  LOW,    FALSE>>,
    <<"ListenStmt",          "POSTGRES_SPECIFIC",  LOW,    FALSE>>,
    <<"NotifyStmt",          "POSTGRES_SPECIFIC",  MEDIUM, FALSE>> }

\* Variant: no class of the table is catalogued as a migration.
STATEMENT_CONFIG_no_migration ==
  [stmt_type \in {row[1] : row \in StatementConfigRows} |->
     LET row == CHOOSE r \in StatementConfigRows : r[1] = stmt_type
     IN  [category |-> row[2], risk_level |-> row[3], needs_migration |-> FALSE]]

STATEMENT_CONFIG ==
  [stmt_type \in {row[1] : row \in StatementConfigRows} |->
     LET row == CHOOSE r \in StatementConfigRows : r[1] = stmt_type
     IN  [category |-> row[2], risk_level |-> row[3], needs_migration |-> row[4]]]

\* Variant: a class the table does not list is rated LOW.
DefaultClassification_low ==
  [category |-> "OTHER", risk_level |-> LOW, needs_migration |-> FALSE]

DefaultClassification ==
  [category |-> "OTHER", risk_level |-> MEDIUM, needs_migration |-> FALSE]

\* A parsed statement node: its pglast class name, for COPY the direction
\* flag is_from, and the length stmt_len the parser reports for its text. The
\* parser reports the length of a statement that a semicolon ends, and 0
\* ("the rest of the string") for a last statement with no semicolon after it.
Node(t) == [type |-> t, is_from |-> FALSE, stmt_len |-> 1]
CopyNode(from) == [type |-> "CopyStmt", is_from |-> from, stmt_len |-> 1]
LastNode(t) == [type |-> t, is_from |-> FALSE, stmt_len |-> 0]

\* The COPY special case, applied to the entry looked up for the class.
classify_copy(stmt_node, config) ==
  IF stmt_node.type = "CopyStmt"
    THEN IF ~stmt_node.is_from
           THEN [config EXCEPT !.category = "DQL", !.risk_level = LOW]
           ELSE [config EXCEPT !.category = "DML", !.risk_level = MEDIUM]
    ELSE config

\* The module-level dict STATEMENT_CONFIG as the running process holds it:
\* classify_statement hands out its entries themselves, not copies.
VARIABLE statement_config

\* Variant: the table is not looked at; every class gets the default.
classify_statement_no_table(stmt_node) ==
  classify_copy(stmt_node, DefaultClassification)

classify_statement(stmt_node) ==
  classify_copy(stmt_node,
                IF stmt_node.type \in DOMAIN statement_config
                  THEN statement_config[stmt_node.type]
                  ELSE DefaultClassification)

\* The table after classify_statement.  The COPY special case assigns to the
\* dict the lookup returned: the table's own entry where the table has one
\* for the class, the fresh default dict where it has none.
\* Variant: the lookup stores the default in the table (setdefault), so the
\* dict written is always an entry of the table.
config_after_classify_setdefault(table, stmt_node) ==
  [stmt_type \in DOMAIN table \cup {stmt_node.type} |->
     IF stmt_type # stmt_node.type THEN table[stmt_type]
     ELSE classify_copy(stmt_node,
                        IF stmt_type \in DOMAIN table THEN table[stmt_type]
                        ELSE DefaultClassification)]

config_after_classify(table, stmt_node) ==
  IF stmt_node.type = "CopyStmt" /\ stmt_node.type \in DOMAIN table
    THEN [table EXCEPT ![stmt_node.type] = classify_copy(stmt_node, table[stmt_node.type])]
    ELSE table

\* The table after the statements of a batch were classified in order.
RECURSIVE config_after_statements(_, _)
config_after_statements(table, tree) ==
  IF tree = <<>> THEN table
  ELSE config_after_statements(config_after_classify(table, Head(tree)), Tail(tree))

\* ---------------------------------------------------- API classification
PATH_SAFETY_CONFIG ==
  EXTREME :> (
      "DELETE" :> <<
        <<"v1", "projects", "{ref}">> >> ) @@
  HIGH :> (
      "DELETE" :> <<
        <<"v1", "projects", "{ref}", "branches", "{branch_id}">>,
        <<"v1", "projects", "{ref}", "branches">>,
        <<"v1", "projects", "{ref}", "custom-hostname">>,
        <<"v1", "projects", "{ref}", "vanity-subdomain">>,
        <<"v1", "projects", "{ref}", "network-bans">>,
        <<"v1", "projects", "{ref}", "secrets">>,
        <<"v1", "projects", "{ref}", "functions", "{function_slug}">>,
        <<"v1", "projects", "{ref}", "api-keys", "{id}">>,
        <<"v1", "projects", "{ref}", "config", "auth", "sso", "providers", "{provider_id}">>,
        <<"v1", "projects", "{ref}", "config", "auth", "signing-keys", "{id}">> >> @@
      "POST"   :> <<
        <<"v1", "projects", "{ref}", "pause">>,
        <<"v1", "projects", "{ref}", "restore">>,
        <<"v1", "projects", "{ref}", "upgrade">>,
        <<"v1", "projects", "{ref}", "read-replicas", "remove">>,
        <<"v1", "projects", "{ref}", "restore", "cancel">>,
        <<"v1", "projects", "{ref}", "readonly", "temporary-disable">> >> ) @@
  MEDIUM :> (
      "POST"   :> <<
        <<"v1", "projects">>,
        <<"v1", "organizations">>,
        <<"v1", "projects", "{ref}", "branches">>,
        <<"v1", "projects", "{ref}", "branches", "{branch_id}", "push">>,
        <<"v1", "projects", "{ref}", "branches", "{branch_id}", "reset">>,
        <<"v1", "projects", "{ref}", "custom-hostname", "initialize">>,
        <<"v1", "projects", "{ref}", "custom-hostname", "reverify">>,
        <<"v1", "projects", "{ref}", "custom-hostname", "activate">>,
        <<"v1", "projects", "{ref}", "network-bans", "retrieve">>,
        <<"v1", "projects", "{ref}", "network-restrictions", "apply">>,
        <<"v1", "projects", "{ref}", "secrets">>,
        <<"v1", "projects", "{ref}", "upgrade", "status">>,
        <<"v1", "projects", "{ref}", "database", "webhooks", "enable">>,
        <<"v1", "projects", "{ref}", "functions">>,
        <<"v1", "projects", "{ref}", "functions", "deploy">>,
        <<"v1", "projects", "{ref}", "config", "auth", "sso", "providers">>,
        <<"v1", "projects", "{ref}", "database", "backups", "restore-pitr">>,
        <<"v1", "projects", "{ref}", "read-replicas", "setup">>,
        <<"v1", "projects", "{ref}", "database", "query">>,
        <<"v1", "projects", "{ref}", "config", "auth", "signing-keys">>,
        <<"v1", "oauth", "token">>,
        <<"v1", "oauth", "revoke">>,
        <<"v1", "projects", "{ref}", "api-keys">> >> @@
      "PATCH"  :> <<
        <<"v1", "projects", "{ref}", "config", "auth">>,
        <<"v1", "projects", "{ref}", "config", "database", "pooler">>,
        <<"v1", "projects", "{ref}", "postgrest">>,
        <<"v1", "projects", "{ref}", "functions", "{function_slug}">>,
        <<"v1", "projects", "{ref}", "config", "storage">>,
        <<"v1", "branches", "{branch_id}">>,
        <<"v1", "projects", "{ref}", "api-keys", "{id}">>,
        <<"v1", "projects", "{ref}", "config", "auth", "signing-keys", "{id}">> >> @@
      "PUT"    :> <<
        <<"v1", "projects", "{ref}", "config", "database", "postgres">>,
        <<"v1", "projects", "{ref}", "pgsodium">>,
        <<"v1", "projects", "{ref}", "ssl-enforcement">>,
        <<"v1", "projects", "{ref}", "functions">>,
        <<"v1", "projects", "{ref}", "config", "auth", "sso", "providers", "{provider_id}">> >> )


\* Placeholders that convert_pattern_to_regex turns into "[^/]+".
RegexPlaceholders ==
  {"{ref}", "{id}", "{slug}", "{table}", "{branch_id}", "{function_slug}"}

\* One segment of a template against one segment of a path.  A replaced
\* placeholder matches any non-empty segment; every other template segment
\* (a placeholder the conversion does not know included) matches literally.
segment_matches(pattern_seg, path_seg) ==
  IF pattern_seg \in RegexPlaceholders THEN path_seg # "" ELSE pattern_seg = path_seg

\* re.match of the anchored template: segment by segment, whole path.
convert_pattern_to_regex(pattern, path) ==
  /\ Len(pattern) = Len(path)
  /\ \A i \in 1..Len(pattern) : segment_matches(pattern[i], path[i])

matches_any(patterns, method, path) ==
  /\ method \in DOMAIN patterns
  /\ \E i \in 1..Len(patterns[method]) :
        convert_pattern_to_regex(patterns[method][i], path)

path_matches_risk_level(method, path, risk_level) ==
  matches_any(PATH_SAFETY_CONFIG[risk_level], method, path)

\* Variant: a request that matches no template is LOW.
api_get_risk_level_default_low(method, path) ==
  IF path_matches_risk_level(method, path, EXTREME) THEN EXTREME
  ELSE IF path_matches_risk_level(method, path, HIGH) THEN HIGH
  ELSE IF path_matches_risk_level(method, path, MEDIUM) THEN MEDIUM
  ELSE LOW

api_get_risk_level(method, path) ==
  IF path_matches_risk_level(method, path, EXTREME) THEN EXTREME
  ELSE IF path_matches_risk_level(method, path, HIGH) THEN HIGH
  ELSE IF path_matches_risk_level(method, path, MEDIUM) THEN MEDIUM
  ELSE MEDIUM

\* ------------------------------------------------------------- validator
\* The SQL text as the parser sees it: blank text, text the parser rejects,
\* text for which the parser returns no tree (None), or a parse tree (a
\* sequence of statement nodes).
BlankQuery == [parse |-> "blank", tree |-> <<>>]
MalformedQuery == [parse |-> "error", tree |-> <<>>]
NoTreeQuery == [parse |-> "no_tree", tree |-> <<>>]
Sql(tree) == [parse |-> "ok", tree |-> tree]

basic_query_validation(sql_query) == sql_query.parse # "blank"

\* The text of a statement is the slice of the original text from its
\* location over stmt_len characters: the statement's own text, named here by
\* its position in the batch, or the empty text (0) when stmt_len is 0.
EmptyText == 0

statement_text(stmt_node, pos) == IF stmt_node.stmt_len = 0 THEN EmptyText ELSE pos

NewValidatedStatement(classification, stmt_node, pos) ==
  [category |-> classification.category,
   risk_level |-> classification.risk_level,
   needs_migration |-> classification.needs_migration,
   type |-> stmt_node.type,
   query |-> statement_text(stmt_node, pos)]

ValidatedStatement(stmt_node, pos) ==
  NewValidatedStatement(classify_statement(stmt_node), stmt_node, pos)

\* Variant: the batch takes the risk level of its last statement.
MaxRisk_last(statements) ==
  IF statements = <<>> THEN LOW
  ELSE statements[Len(statements)].risk_level

RECURSIVE MaxRisk(_)
MaxRisk(statements) ==
  IF statements = <<>> THEN LOW
  ELSE LET rest == MaxRisk(Tail(statements))
       IN  IF Head(statements).risk_level > rest
             THEN Head(statements).risk_level ELSE rest

Invalid == [ok |-> FALSE, statements |-> <<>>, highest_risk_level |-> LOW]

\* QueryValidationResults(original_query): no statement yet, lowest risk.
EmptyResults == [ok |-> TRUE, statements |-> <<>>, highest_risk_level |-> LOW]

\* The end of validate_statements: no statement at all is a ValidationError.
batch_of(statements) ==
  IF Len(statements) = 0
    THEN Invalid
    ELSE [ok |-> TRUE, statements |-> statements,
          highest_risk_level |-> MaxRisk(statements)]

\* validate_statements: one ValidatedStatement per node and the running
\* maximum of the risk levels; no tree gives the empty results back.
validate_statements(sql_query) ==
  IF sql_query.parse = "no_tree" THEN EmptyResults
  ELSE batch_of([i \in 1..Len(sql_query.tree) |-> ValidatedStatement(sql_query.tree[i], i)])

\* Variant: only the first statement is looked at for transaction control.
reject_transaction_control_first_only(result) ==
  IF ~result.ok THEN Invalid
  ELSE IF Len(result.statements) > 0 /\ result.statements[1].category = "TCL"
    THEN Invalid
    ELSE result

\* The loop of validate_query over the statements of the result.
reject_transaction_control(result) ==
  IF ~result.ok THEN Invalid
  ELSE IF \E i \in 1..Len(result.statements) : result.statements[i].category = "TCL"
    THEN Invalid
    ELSE result

\* validate_query: blank text, a parser error, an empty batch and a batch
\* holding a transaction-control statement all raise ValidationError.
validate_query(sql_query) ==
  IF ~basic_query_validation(sql_query) THEN Invalid
  ELSE IF sql_query.parse = "error" THEN Invalid
  ELSE reject_transaction_control(validate_statements(sql_query))

needs_migration(validation_result) ==
  \E i \in 1..Len(validation_result.statements) :
     validation_result.statements[i].needs_migration

\* The migration-ledger insert rendered for a batch: one INSERT statement.
prepare_migration_query(original_query) == Sql(<<Node("InsertStmt")>>)

\* The table after validate_query: only a text the parser gave a tree for
\* has its statements classified.
config_after_validate(table, sql_query) ==
  IF sql_query.parse = "ok" THEN config_after_statements(table, sql_query.tree)
  ELSE table

\* ---------------------------------------------------------------- policy
\* Variant: the mode decides for every level above LOW, EXTREME included.
is_operation_allowed_extreme_by_mode(risk_level, mode_) ==
  IF risk_level = LOW THEN TRUE
  ELSE mode_ = UNSAFE

\* Variant: HIGH is let through in either mode.
is_operation_allowed_high_always(risk_level, mode_) ==
  IF risk_level = LOW THEN TRUE
  ELSE IF risk_level = MEDIUM THEN mode_ = UNSAFE
  ELSE IF risk_level = HIGH THEN TRUE
  ELSE FALSE

\* Variant: MEDIUM is let through like LOW.
is_operation_allowed_medium_always(risk_level, mode_) ==
  IF risk_level = LOW THEN TRUE
  ELSE IF risk_level = MEDIUM THEN TRUE
  ELSE IF risk_level = HIGH THEN mode_ = UNSAFE
  ELSE FALSE

is_operation_allowed(risk_level, mode_) ==
  IF risk_level = LOW THEN TRUE
  ELSE IF risk_level = MEDIUM THEN mode_ = UNSAFE
  ELSE IF risk_level = HIGH THEN mode_ = UNSAFE
  ELSE FALSE

\* Variant: only levels above HIGH ask for a confirmation.
safety_needs_confirmation_above_high(risk_level) == risk_level > HIGH

\* Variant: MEDIUM asks for a confirmation too.
safety_needs_confirmation_from_medium(risk_level) == risk_level >= MEDIUM

safety_needs_confirmation(risk_level) == risk_level >= HIGH

\* ------------------------------------------------- API path parameters
PathPlaceholder ==
  {"ref", "function_slug", "id", "slug", "branch_id", "provider_id", "tpa_id"}

Braced(key) ==
  CASE key = "ref" -> "{ref}"
    [] key = "function_slug" -> "{function_slug}"
    [] key = "id" -> "{id}"
    [] key = "slug" -> "{slug}"
    [] key = "branch_id" -> "{branch_id}"
    [] key = "provider_id" -> "{provider_id}"
    [] key = "tpa_id" -> "{tpa_id}"
    [] OTHER -> "{?}"

\* Every segment of the form {name} that a path of the model can hold.
PlaceholderSegments == {Braced(k) : k \in PathPlaceholder} \cup {"{table}", "{?}"}

\* settings.supabase_project_ref
ProjectRef == "projectref"

\* str.replace of one placeholder by a value (a value holding a slash is
\* several segments).
RECURSIVE ReplaceOne(_, _, _)
ReplaceOne(path, placeholder, value) ==
  IF path = <<>> THEN <<>>
  ELSE (IF Head(path) = placeholder THEN value ELSE <<Head(path)>>)
         \o ReplaceOne(Tail(path), placeholder, value)

RECURSIVE ReplaceAll(_, _)
ReplaceAll(path, working_params) ==
  IF working_params = <<>> THEN path
  ELSE ReplaceAll(ReplaceOne(path, Braced(Head(working_params)[1]), Head(working_params)[2]),
                  Tail(working_params))

\* replace_path_params: path_params is the caller's dict in insertion order,
\* a sequence of <<key, value>>.  ok = FALSE stands for the ValueError.
replace_path_params(path, path_params) ==
  LET keys == {path_params[i][1] : i \in 1..Len(path_params)}
      working_params == path_params \o << <<"ref", <<ProjectRef>> >> >>
      replaced == ReplaceAll(path, working_params)
  IN  IF "ref" \in keys THEN [ok |-> FALSE, path |-> <<>>]
      ELSE IF \E k \in keys : k \notin PathPlaceholder THEN [ok |-> FALSE, path |-> <<>>]
      ELSE IF \E i \in 1..Len(replaced) : replaced[i] \in PlaceholderSegments
        THEN [ok |-> FALSE, path |-> <<>>]
        ELSE [ok |-> TRUE, path |-> replaced]

\* ----------------------------------------------------------------- state
Callers == 1..NumCallers
ConfirmationIds == 1..MaxConfirmations

NoQuery == [parse |-> "absent", tree |-> <<>>]
NoOp == [surface |-> "none", query |-> NoQuery, method |-> "", path |-> <<>>,
         path_params |-> <<>>]
DbOp(q) == [surface |-> DATABASE, query |-> q, method |-> "", path |-> <<>>,
            path_params |-> <<>>]
ApiOp(method, path, path_params) ==
  [surface |-> API, query |-> NoQuery, method |-> method, path |-> path,
   path_params |-> path_params]

VARIABLES
  mode,      \* SafetyManager: the safety mode of each client type
  pending,   \* SafetyManager: confirmation id -> [operation, remaining]
  nextId,    \* the next fresh confirmation id
  call,      \* per caller: the handler in flight and where it awaits, or
             \* the outcome of the caller's last call
  issued,    \* history: the operation each confirmation id was minted for
  uses,      \* history: per confirmation id, the lookups that returned it
  toggled    \* history: the toggle operation has been called

vars == <<mode, pending, nextId, call, issued, uses, toggled, statement_config>>

\* ---------------------------------------------------------------- inputs
\* Batches as the parser returns them: no statement, one statement of each
\* risk level, a batch whose last and one whose first statement is the
\* riskiest, and transaction control alone, after and before another
\* statement.
ParseTrees ==
  { <<>>,
    <<Node("SelectStmt")>>,
    <<Node("CreateStmt")>>,
    <<Node("DropStmt")>>,
    <<Node("SelectStmt"), Node("DropStmt")>>,
    <<Node("DropStmt"), Node("SelectStmt")>>,
    <<Node("TransactionStmt")>>,
    <<Node("SelectStmt"), Node("TransactionStmt")>>,
    <<Node("TransactionStmt"), Node("DropStmt")>> }

Queries == {BlankQuery, MalformedQuery, NoTreeQuery} \cup {Sql(t) : t \in ParseTrees}

ApiRequests ==
  { ApiOp("DELETE", <<"v1", "projects", "{ref}">>, <<>>),
    ApiOp("DELETE", <<"v1", "projects", "{ref}", "functions", "{function_slug}">>,
          << <<"function_slug", <<"test-function">> >> >>),
    ApiOp("DELETE", <<"v1", "projects", "{ref}", "functions", "{function_slug}">>, <<>>),
    ApiOp("POST", <<"v1", "projects">>, <<>>),
    ApiOp("GET", <<"v1", "projects", "{ref}", "health">>, <<>>) }

\* -------------------------------------------------------- safety manager
\* Variant: the API surface starts in UNSAFE mode.
default_safety_mode_api_unsafe(client_type) ==
  IF client_type = API THEN UNSAFE ELSE SAFE

\* The mode a surface has when the safety manager is constructed.
default_safety_mode(client_type) == SAFE

get_safety_mode(client_type) == mode[client_type]

\* validate_operation: the policy decision for a classified operation.
validate_operation(client_type, risk_level, has_confirmation) ==
  IF ~is_operation_allowed(risk_level, get_safety_mode(client_type))
    THEN "OperationNotAllowedError"
  ELSE IF safety_needs_confirmation(risk_level) /\ ~has_confirmation
    THEN "ConfirmationRequiredError"
    ELSE "allowed"

\* _store_confirmation: the store with the operation under a fresh id.
store_confirmation(store, operation) ==
  [i \in DOMAIN store \cup {nextId} |->
     IF i = nextId THEN [operation |-> operation, remaining |-> CONFIRMATION_TTL]
     ELSE store[i]]

\* remaining is expires_at - now, in minutes: the entry has expired once
\* the clock has passed expires_at.
\* Variant: an entry never expires.
is_expired_never(confirmation) == FALSE

is_expired(confirmation) == confirmation.remaining < 0

\* get_stored_operation: the operation stored under the id, if it is there
\* and has not expired.
get_stored_operation(confirmation_id) ==
  IF confirmation_id \in DOMAIN pending /\ ~is_expired(pending[confirmation_id])
    THEN pending[confirmation_id].operation
    ELSE NoOp

\* The store after a lookup of the id: the entry is gone, whether it was
\* returned (consumed) or had expired (purged).
\* Variant: a lookup leaves the entry in the store.
store_after_lookup_keeps(confirmation_id) == pending

store_after_lookup(confirmation_id) ==
  [i \in DOMAIN pending \ {confirmation_id} |-> pending[i]]

\* The periodic purge of expired entries.
cleanup_expired_confirmations ==
  /\ \E i \in DOMAIN pending : is_expired(pending[i])
  /\ pending' = [i \in {j \in DOMAIN pending : ~is_expired(pending[j])} |-> pending[i]]
  /\ UNCHANGED <<mode, nextId, call, issued, uses, toggled, statement_config>>

\* ------------------------------------------------------------ call records
\* pc: "idle" (no call yet), "ledger" / "exec" / "http" (awaiting the
\* execution client), "done" (returned or raised: outcome is set, and the
\* record no longer holds the operation).
\* via / lookup / got: the confirmation id a confirmation handler was called
\* with, what the store held for it at that moment, and whether the handler
\* got an operation for it.
\* tcl: the operation the call was made for holds a transaction-control
\* statement.
\* mode_checked: the surface's mode when the policy check ran.
\* ledger, stmts, http: what went to the execution client and how it came
\* back; *_tx the readonly flag it was sent with, *_mode the database mode
\* at that moment.
\* What the store holds for an id, as the clock sees it.
Lookup(confirmation_id) ==
  IF confirmation_id \notin DOMAIN pending THEN "absent"
  ELSE IF pending[confirmation_id].remaining < 0 THEN "late"
  ELSE "in_time"

\* The operation is SQL text with a transaction-control statement in it.
HasTransactionControl(op) ==
  \E i \in 1..Len(op.query.tree) : op.query.tree[i].type = "TransactionStmt"

NewCall(entry, op, has_confirmation, via) ==
  [pc |-> "idle", entry |-> entry, op |-> op, has_confirmation |-> has_confirmation,
   via |-> via, lookup |-> IF via = 0 THEN "none" ELSE Lookup(via), got |-> FALSE,
   tcl |-> HasTransactionControl(op),
   risk |-> 0, mode_checked |-> "none",
   ledger |-> "none", ledger_tx |-> "none", ledger_mode |-> "none",
   stmts |-> "none", stmts_tx |-> "none", stmts_mode |-> "none",
   http |-> "none", outcome |-> "none", minted |-> 0, results |-> <<>>,
   failed_at |-> 0, committed |-> <<>>]

IdleCall == NewCall("none", NoOp, FALSE, 0)

Ready(p) == call[p].pc \in {"idle", "done"}
InFlight(p) == call[p].pc \in {"ledger", "exec", "http"}

\* The handler of caller p returns (or raises) with call record c.
Return(p, c, store, next_id) ==
  /\ call' = [call EXCEPT ![p] = [c EXCEPT !.pc = "done", !.op = NoOp]]
  /\ pending' = store
  /\ nextId' = next_id

\* The handler of caller p suspends at an await of an execution client.
Await(p, c, store) ==
  /\ call' = [call EXCEPT ![p] = c]
  /\ pending' = store
  /\ nextId' = nextId

Transaction(readonly) == IF readonly THEN "readonly" ELSE "readwrite"

\* History: a call that minted an id was made for operation op; a
\* confirmation handler that got an operation from the store used its id.
Record(p, op) ==
  /\ issued' = IF call'[p].minted # 0
                 THEN [issued EXCEPT ![call'[p].minted] = op] ELSE issued
  /\ UNCHANGED uses

RecordUse(p, confirmation_id) ==
  /\ uses' = IF call'[p].got
               THEN [uses EXCEPT ![confirmation_id] = IF @ < 2 THEN @ + 1 ELSE @]
               ELSE uses
  /\ issued' = IF call'[p].minted # 0 /\ confirmation_id \in DOMAIN pending
                 THEN [issued EXCEPT ![call'[p].minted] = pending[confirmation_id].operation]
                 ELSE issued

\* ---------------------------------------------------------- query manager
\* Variant: the flag is read from the mode of the other surface.
check_readonly_api_mode == get_safety_mode(API) = SAFE

check_readonly == get_safety_mode(DATABASE) = SAFE

\* handle_query_execution up to its await: the readonly flag is read from the
\* mode now, and the statements go to the database client.
handle_query_execution(p, c, store) ==
  Await(p, [c EXCEPT !.pc = "exec", !.stmts = "sent",
                     !.stmts_tx = Transaction(check_readonly),
                     !.stmts_mode = mode[DATABASE]], store)

\* handle_migration for a batch that needs cataloguing, up to its await: the
\* ledger insert is validated and sent as a batch of its own.
handle_migration_validated(p, c, store, validated_query) ==
  IF ~validated_query.ok
    THEN Return(p, [c EXCEPT !.outcome = "ValidationError"], store, nextId)
    ELSE Await(p, [c EXCEPT !.pc = "ledger", !.ledger = "sent",
                            !.ledger_tx = Transaction(check_readonly),
                            !.ledger_mode = mode[DATABASE]], store)

handle_migration(p, c, store) ==
  handle_migration_validated(p, c, store,
                             validate_query(prepare_migration_query(c.op.query)))

\* handle_query after the policy check let the operation through.
handle_query_allowed(p, c, store, validated_query) ==
  IF needs_migration(validated_query)
    THEN handle_migration(p, c, store)
    ELSE handle_query_execution(p, c, store)

\* Variant: the confirmation is stored for the ledger insert rendered from
\* the query, not for the query.
handle_query_decided_stores_rendered(p, c, store, validated_query, decision) ==
  IF decision = "OperationNotAllowedError"
    THEN Return(p, [c EXCEPT !.outcome = decision], store, nextId)
  ELSE IF decision = "ConfirmationRequiredError"
    THEN /\ nextId \in ConfirmationIds
         /\ Return(p, [c EXCEPT !.outcome = decision, !.minted = nextId],
                   store_confirmation(store, DbOp(prepare_migration_query(c.op.query))),
                   nextId + 1)
    ELSE handle_query_allowed(p, c, store, validated_query)

\* handle_query from the outcome of validate_operation on.
handle_query_decided(p, c, store, validated_query, decision) ==
  IF decision = "OperationNotAllowedError"
    THEN Return(p, [c EXCEPT !.outcome = decision], store, nextId)
  ELSE IF decision = "ConfirmationRequiredError"
    THEN /\ nextId \in ConfirmationIds
         /\ Return(p, [c EXCEPT !.outcome = decision, !.minted = nextId],
                   store_confirmation(store, c.op), nextId + 1)
    ELSE handle_query_allowed(p, c, store, validated_query)

\* Variant: a batch that failed validation goes on to the policy check as
\* the empty batch it is.
handle_query_validated_unchecked(p, c, store, validated_query) ==
  handle_query_decided(
    p,
    [c EXCEPT !.risk = validated_query.highest_risk_level,
              !.mode_checked = mode[DATABASE]],
    store, validated_query,
    validate_operation(DATABASE, validated_query.highest_risk_level,
                       c.has_confirmation))

\* handle_query from the result of validate_query on.
handle_query_validated(p, c, store, validated_query) ==
  IF ~validated_query.ok
    THEN Return(p, [c EXCEPT !.outcome = "ValidationError"], store, nextId)
    ELSE handle_query_decided(
           p,
           [c EXCEPT !.risk = validated_query.highest_risk_level,
                     !.mode_checked = mode[DATABASE]],
           store, validated_query,
           validate_operation(DATABASE, validated_query.highest_risk_level,
                              c.has_confirmation))

\* handle_query up to its first await (or to its return).
handle_query(p, c, store) ==
  handle_query_validated(p, c, store, validate_query(c.op.query))

\* The table after handle_query has run to where record c stands: the text
\* was validated, and so was the ledger insert if one was rendered.
config_after_handle_query(c, sql_query) ==
  IF c.ledger = "none"
    THEN config_after_validate(statement_config, sql_query)
    ELSE config_after_validate(config_after_validate(statement_config, sql_query),
                               prepare_migration_query(sql_query))

HandleQuery(p, q, has_confirmation) ==
  /\ Ready(p)
  /\ handle_query(p, NewCall("handle_query", DbOp(q), has_confirmation, 0), pending)
  /\ Record(p, DbOp(q))
  /\ statement_config' = config_after_handle_query(call'[p], q)
  /\ UNCHANGED <<mode, toggled>>

\* The exceptions of the database driver a statement can fail with, and the
\* answer of a statement that ran.
DriverErrors == {"InsufficientPrivilegeError", "UndefinedTableError"}
NoError == "none"
Answers == {NoError} \cup DriverErrors

\* execute_statement: the rows of the statement, or the driver's exception
\* raised again as it is.
execute_statement(answer) == IF answer = NoError THEN "ok" ELSE answer

\* _handle_postgres_error: the conversion of a driver exception into the
\* error kinds of the server. Only _execute_raw_query calls it.
handle_postgres_error(error) ==
  IF error = "InsufficientPrivilegeError" THEN "PermissionError" ELSE "QueryError"

\* transaction_operation of execute_query_async: the statements are run in
\* order, a statement whose text is empty is skipped with a warning, and the
\* row-sets of the others are collected (each named by the text it came from).
RECURSIVE execute_all_statements(_)
execute_all_statements(statements) ==
  IF statements = <<>> THEN <<>>
  ELSE IF Head(statements).query # EmptyText
    THEN <<Head(statements).query>> \o execute_all_statements(Tail(statements))
    ELSE execute_all_statements(Tail(statements))

\* Variant: a failed ledger insert is logged and the statements run anyway.
LedgerDone_fail_open(p, answer) ==
  /\ call[p].pc = "ledger"
  /\ handle_query_execution(p, [call[p] EXCEPT !.ledger = IF answer = NoError THEN "ok" ELSE "failed"],
                            pending)
  /\ UNCHANGED <<mode, issued, uses, toggled, statement_config>>

\* The ledger insert comes back from the database client.
LedgerDone(p, answer) ==
  /\ call[p].pc = "ledger"
  /\ IF answer = NoError
       THEN handle_query_execution(p, [call[p] EXCEPT !.ledger = "ok"], pending)
       ELSE Return(p, [call[p] EXCEPT !.ledger = "failed",
                                      !.outcome = execute_statement(answer)],
                   pending, nextId)
  /\ UNCHANGED <<mode, issued, uses, toggled, statement_config>>

\* The statements of the call that the client runs, in order.
statements_run(c) == execute_all_statements(validate_query(c.op.query).statements)

\* Which statement can have raised: none when the answer is no error, else
\* any of the statements run.
FailedAt(c, answer) ==
  IF answer = NoError THEN {0} ELSE 1..Len(statements_run(c))

\* Variant: every statement is committed as soon as it has run.
with_transaction_autocommit(effects, raised) == effects

\* with_transaction: the block runs inside conn.transaction(), which commits
\* when the block ends and rolls back when an exception leaves it.
with_transaction(effects, raised) == IF raised THEN <<>> ELSE effects

\* execute_query_async coming back to handle_query_execution: the result
\* holds the row-sets collected, or the exception of the failing statement
\* goes up to the caller of the handler.
\* Statement failed_at is the one that raised; the statements before it had
\* run, and what the transaction leaves of them is in committed.
exec_done(c, answer, failed_at) ==
  IF answer = NoError
    THEN [c EXCEPT !.stmts = "ok", !.outcome = "ok",
                   !.results = statements_run(c),
                   !.committed = with_transaction(statements_run(c), FALSE)]
    ELSE [c EXCEPT !.stmts = "failed", !.outcome = execute_statement(answer),
                   !.failed_at = failed_at,
                   !.committed = with_transaction(
                                   SubSeq(statements_run(c), 1, failed_at - 1), TRUE)]

\* Variant: a finished execution puts the database surface back in SAFE mode.
ExecDone_back_to_safe(p, answer) ==
  /\ call[p].pc = "exec"
  /\ \E failed_at \in FailedAt(call[p], answer) :
        Return(p, exec_done(call[p], answer, failed_at), pending, nextId)
  /\ mode' = [mode EXCEPT ![DATABASE] = SAFE]
  /\ UNCHANGED <<issued, uses, toggled, statement_config>>

\* The caller's statements come back from the database client.
ExecDone(p, answer) ==
  /\ call[p].pc = "exec"
  /\ \E failed_at \in FailedAt(call[p], answer) :
        Return(p, exec_done(call[p], answer, failed_at), pending, nextId)
  /\ UNCHANGED <<mode, issued, uses, toggled, statement_config>>

\* Variant: the handler goes on without looking whether it got an operation.
handle_confirmation_got_unchecked(p, c, store) ==
  handle_query(p, [c EXCEPT !.got = c.op # NoOp], store)

\* handle_confirmation from the answer of get_stored_operation on.
handle_confirmation_got(p, c, store) ==
  IF c.op = NoOp
    THEN Return(p, [c EXCEPT !.outcome = "OperationNotAllowedError"], store, nextId)
  ELSE IF c.op.surface # DATABASE
    THEN Return(p, [c EXCEPT !.got = TRUE, !.outcome = "AttributeError"], store, nextId)
    ELSE handle_query(p, [c EXCEPT !.got = TRUE], store)

handle_confirmation(p, confirmation_id) ==
  handle_confirmation_got(
    p, NewCall("handle_confirmation", get_stored_operation(confirmation_id), TRUE,
               confirmation_id),
    store_after_lookup(confirmation_id))

HandleConfirmation(p, confirmation_id) ==
  /\ Ready(p)
  /\ handle_confirmation(p, confirmation_id)
  /\ RecordUse(p, confirmation_id)
  /\ statement_config' =
        config_after_handle_query(call'[p], get_stored_operation(confirmation_id).query)
  /\ UNCHANGED <<mode, toggled>>

\* ------------------------------------------------------------ API manager
\* execute_request from the outcome of validate_operation on.
execute_request_decided(p, c, store, decision, replaced) ==
  IF decision = "OperationNotAllowedError"
    THEN Return(p, [c EXCEPT !.outcome = decision], store, nextId)
  ELSE IF decision = "ConfirmationRequiredError"
    THEN /\ nextId \in ConfirmationIds
         /\ Return(p, [c EXCEPT !.outcome = decision, !.minted = nextId],
                   store_confirmation(store, c.op), nextId + 1)
  ELSE IF ~replaced.ok
    THEN Return(p, [c EXCEPT !.outcome = "ValueError"], store, nextId)
    ELSE Await(p, [c EXCEPT !.pc = "http", !.http = "sent"], store)

execute_request_classified(p, c, store, risk) ==
  execute_request_decided(
    p, [c EXCEPT !.risk = risk, !.mode_checked = mode[API]], store,
    validate_operation(API, risk, c.has_confirmation),
    replace_path_params(c.op.path, c.op.path_params))

\* execute_request up to its await (or to its return).
execute_request(p, c, store) ==
  execute_request_classified(p, c, store, api_get_risk_level(c.op.method, c.op.path))

ExecuteRequest(p, request, has_confirmation) ==
  /\ Ready(p)
  /\ execute_request(p, NewCall("execute_request", request, has_confirmation, 0), pending)
  /\ Record(p, request)
  /\ UNCHANGED <<mode, toggled, statement_config>>

\* The request comes back from the HTTP client.
HttpDone(p, ok) ==
  /\ call[p].pc = "http"
  /\ Return(p, [call[p] EXCEPT !.http = IF ok THEN "ok" ELSE "failed",
                               !.outcome = IF ok THEN "ok" ELSE "APIError"],
            pending, nextId)
  /\ UNCHANGED <<mode, issued, uses, toggled, statement_config>>

\* Variant: the API manager sends whatever operation the store returned.
api_handle_confirmation_got_any_surface(p, c, store) ==
  IF c.op = NoOp
    THEN Return(p, [c EXCEPT !.outcome = "ValueError"], store, nextId)
    ELSE execute_request(p, [c EXCEPT !.got = TRUE], store)

\* handle_confirmation of the API manager from the answer of
\* get_stored_operation on.
api_handle_confirmation_got(p, c, store) ==
  IF c.op = NoOp
    THEN Return(p, [c EXCEPT !.outcome = "ValueError"], store, nextId)
  ELSE IF c.op.surface # API
    THEN Return(p, [c EXCEPT !.got = TRUE, !.outcome = "TypeError"], store, nextId)
    ELSE execute_request(p, [c EXCEPT !.got = TRUE], store)

api_handle_confirmation(p, confirmation_id) ==
  api_handle_confirmation_got(
    p, NewCall("api_handle_confirmation", get_stored_operation(confirmation_id), TRUE,
               confirmation_id),
    store_after_lookup(confirmation_id))

ApiHandleConfirmation(p, confirmation_id) ==
  /\ Ready(p)
  /\ api_handle_confirmation(p, confirmation_id)
  /\ RecordUse(p, confirmation_id)
  /\ UNCHANGED <<mode, toggled, statement_config>>

\* ---------------------------------------------------- API request manager
\* The answer of validate_operation as handle_request tests it: whether the
\* risk level is allowed in the current mode of the surface.
validate_operation_allowed(client_type, risk_level) ==
  is_operation_allowed(risk_level, get_safety_mode(client_type))

\* handle_request from the risk level on.  No confirmation is asked for: a
\* request of HIGH risk or above that was let through is logged and sent.
handle_request_classified(p, c, store, risk_level) ==
  IF ~validate_operation_allowed(API, risk_level) /\ risk_level = EXTREME
    THEN Return(p, [c EXCEPT !.outcome = "SafetyError"], store, nextId)
  ELSE IF /\ ~validate_operation_allowed(API, risk_level)
          /\ get_safety_mode(API) = SAFE
          /\ risk_level > LOW
    THEN Return(p, [c EXCEPT !.outcome = "SafetyError"], store, nextId)
    ELSE Await(p, [c EXCEPT !.pc = "http", !.http = "sent"], store)

\* handle_request up to its await (or to its return).
handle_request(p, c, store) ==
  handle_request_classified(
    p, [c EXCEPT !.risk = api_get_risk_level(c.op.method, c.op.path),
                 !.mode_checked = mode[API]],
    store, api_get_risk_level(c.op.method, c.op.path))

HandleRequest(p, request) ==
  /\ Ready(p)
  /\ handle_request(p, NewCall("handle_request", request, FALSE, 0), pending)
  /\ Record(p, request)
  /\ UNCHANGED <<mode, toggled, statement_config>>

\* ------------------------------------------------------- mode and clock
set_safety_mode(client_type, safety_mode) ==
  /\ mode' = [mode EXCEPT ![client_type] = safety_mode]
  /\ toggled' = TRUE
  /\ UNCHANGED <<pending, nextId, call, issued, uses, statement_config>>

\* The service names the toggle tool takes.
Services == {"api", "database"}

new_mode(enable_unsafe_mode) == IF enable_unsafe_mode THEN UNSAFE ELSE SAFE

\* Variant: the toggle sets the mode of every surface.
live_dangerously_every_surface(service, enable_unsafe_mode) ==
  /\ mode' = [client_type \in ClientType |-> new_mode(enable_unsafe_mode)]
  /\ toggled' = TRUE
  /\ UNCHANGED <<pending, nextId, call, issued, uses, statement_config>>

\* live_dangerously: the toggle tool, the one caller of set_safety_mode.
live_dangerously(service, enable_unsafe_mode) ==
  IF service = "api"
    THEN set_safety_mode(API, new_mode(enable_unsafe_mode))
  ELSE IF service = "database"
    THEN set_safety_mode(DATABASE, new_mode(enable_unsafe_mode))
    ELSE UNCHANGED vars

\* A minute passes.
Tick ==
  /\ \E i \in DOMAIN pending : pending[i].remaining >= 0
  /\ pending' = [i \in DOMAIN pending |->
                   [pending[i] EXCEPT !.remaining = IF @ < 0 THEN @ ELSE @ - 1]]
  /\ UNCHANGED <<mode, nextId, call, issued, uses, toggled, statement_config>>

\* --------------------------------------------------------- specification
\* One caller session; the mode switches and the clock run beside it.
Init ==
  /\ mode = [client_type \in ClientType |-> default_safety_mode(client_type)]
  /\ pending = <<>>
  /\ nextId = 1
  /\ call = [p \in {1} |-> IdleCall]
  /\ issued = [i \in ConfirmationIds |-> NoOp]
  /\ uses = [i \in ConfirmationIds |-> 0]
  /\ toggled = FALSE
  /\ statement_config = STATEMENT_CONFIG

Next ==
  \/ \E p \in DOMAIN call, q \in Queries, has_confirmation \in BOOLEAN :
        HandleQuery(p, q, has_confirmation)
  \/ \E p \in DOMAIN call, answer \in Answers : LedgerDone(p, answer)
  \/ \E p \in DOMAIN call, answer \in Answers : ExecDone(p, answer)
  \/ \E p \in DOMAIN call, id \in ConfirmationIds : HandleConfirmation(p, id)
  \/ \E p \in DOMAIN call, request \in ApiRequests, has_confirmation \in BOOLEAN :
        ExecuteRequest(p, request, has_confirmation)
  \/ \E p \in DOMAIN call, ok \in BOOLEAN : HttpDone(p, ok)
  \/ \E p \in DOMAIN call, id \in ConfirmationIds : ApiHandleConfirmation(p, id)
  \/ \E service \in Services, enable_unsafe_mode \in BOOLEAN :
        live_dangerously(service, enable_unsafe_mode)
  \/ Tick
  \/ cleanup_expired_confirmations

Spec == Init /\ [][Next]_vars

\* ------------------------------------------- concurrent caller sessions
\* NumCallers sessions share the server; each asks for and confirms the same
\* HIGH-risk operations.  The clock stands still: no entry expires.
ConcurrentQueries == {Sql(<<Node("DropStmt")>>)}

ConcurrentRequests ==
  { ApiOp("DELETE", <<"v1", "projects", "{ref}", "functions", "{function_slug}">>,
          << <<"function_slug", <<"test-function">> >> >>) }

InitConcurrent ==
  /\ mode = [client_type \in ClientType |-> default_safety_mode(client_type)]
  /\ pending = <<>>
  /\ nextId = 1
  /\ call = [p \in Callers |-> IdleCall]
  /\ issued = [i \in ConfirmationIds |-> NoOp]
  /\ uses = [i \in ConfirmationIds |-> 0]
  /\ toggled = FALSE
  /\ statement_config = STATEMENT_CONFIG

NextConcurrent ==
  \/ \E p \in DOMAIN call, q \in ConcurrentQueries : HandleQuery(p, q, FALSE)
  \/ \E p \in DOMAIN call, answer \in Answers : LedgerDone(p, answer)
  \/ \E p \in DOMAIN call, answer \in Answers : ExecDone(p, answer)
  \/ \E p \in DOMAIN call, id \in ConfirmationIds : HandleConfirmation(p, id)
  \/ \E p \in DOMAIN call, request \in ConcurrentRequests :
        ExecuteRequest(p, request, FALSE)
  \/ \E p \in DOMAIN call, ok \in BOOLEAN : HttpDone(p, ok)
  \/ \E p \in DOMAIN call, id \in ConfirmationIds : ApiHandleConfirmation(p, id)
  \/ \E service \in Services, enable_unsafe_mode \in BOOLEAN :
        live_dangerously(service, enable_unsafe_mode)

SpecConcurrent == InitConcurrent /\ [][NextConcurrent]_vars

\* ------------------------------------------- both API entry points
\* The API surface alone, with the two managers that take API requests:
\* SupabaseApiManager (execute_request, handle_confirmation) and
\* APIRequestManager (handle_request).
RequestManagerRequests ==
  { ApiOp(request.method, request.path, <<>>) : request \in ApiRequests }

NextRequestManager ==
  \/ \E p \in DOMAIN call, request \in ApiRequests, has_confirmation \in BOOLEAN :
        ExecuteRequest(p, request, has_confirmation)
  \/ \E p \in DOMAIN call, id \in ConfirmationIds : ApiHandleConfirmation(p, id)
  \/ \E p \in DOMAIN call, request \in RequestManagerRequests :
        HandleRequest(p, request)
  \/ \E p \in DOMAIN call, ok \in BOOLEAN : HttpDone(p, ok)
  \/ \E service \in Services, enable_unsafe_mode \in BOOLEAN :
        live_dangerously(service, enable_unsafe_mode)

SpecRequestManager == Init /\ [][NextRequestManager]_vars

\* ------------------------------------------------- the API classifier
\* The classifier and the policy decision on their own: a request is
\* classified and checked against the mode, and nothing is sent.
HTTPMethod == {"GET", "POST", "PUT", "PATCH", "DELETE", "HEAD", "OPTIONS"}

\* The templates PATH_SAFETY_CONFIG lists for a risk level and a method.
Templates(risk_level, method) ==
  IF method \in DOMAIN PATH_SAFETY_CONFIG[risk_level]
    THEN {PATH_SAFETY_CONFIG[risk_level][method][i] :
            i \in 1..Len(PATH_SAFETY_CONFIG[risk_level][method])}
    ELSE {}

AllTemplates ==
  UNION {Templates(risk_level, method) :
           risk_level \in DOMAIN PATH_SAFETY_CONFIG, method \in HTTPMethod}

\* The template with the given segment in the place of every placeholder.
Instance(template, segment) ==
  [i \in 1..Len(template) |->
     IF template[i] \in PlaceholderSegments THEN segment ELSE template[i]]

\* Paths as callers give them: the templates themselves (placeholders still
\* in the path), their instances with a concrete segment and with an empty
\* segment, and paths no template describes.
ClassifierPaths ==
  AllTemplates
    \cup {Instance(template, "abc") : template \in AllTemplates}
    \cup {Instance(template, "") : template \in AllTemplates}
    \cup { <<"v1", "projects", "{ref}", "health">>,
           <<"v1", "projects", "abc", "health">>,
           <<"v1", "projects", "abc", "pause", "now">>,
           <<"v1">> }

\* get_risk_level and the policy decision for one request, recorded with
\* the request.
get_risk_level(p, c, risk_level) ==
  call' = [call EXCEPT ![p] =
             [c EXCEPT !.pc = "classified", !.risk = risk_level,
                       !.mode_checked = mode[API],
                       !.outcome = validate_operation(API, risk_level,
                                                      c.has_confirmation)]]

GetRiskLevel(p, method, path, has_confirmation) ==
  /\ call[p].pc = "idle"
  /\ get_risk_level(p, NewCall("get_risk_level", ApiOp(method, path, <<>>),
                                has_confirmation, 0),
                    api_get_risk_level(method, path))
  /\ UNCHANGED <<mode, pending, nextId, issued, uses, toggled, statement_config>>

NextClassify ==
  \/ \E p \in DOMAIN call, method \in HTTPMethod, path \in ClassifierPaths,
          has_confirmation \in BOOLEAN :
        GetRiskLevel(p, method, path, has_confirmation)
  \/ \E service \in Services, enable_unsafe_mode \in BOOLEAN :
        live_dangerously(service, enable_unsafe_mode)

SpecClassify == Init /\ [][NextClassify]_vars

\* ------------------------------------------------- the SQL classifier
\* The validator and the policy decision on their own, beside handle_query:
\* every statement class of STATEMENT_CONFIG, classes it does not list, and
\* COPY in both directions, one statement to a text.
\* Classes of the parser that STATEMENT_CONFIG does not list: ALTER ...
\* RENAME, CREATE SEQUENCE, DROP OWNED and DO.
UnlistedClasses == {"RenameStmt", "CreateSeqStmt", "DropOwnedStmt", "DoStmt"}

StatementNodes ==
  {Node(stmt_type) : stmt_type \in DOMAIN STATEMENT_CONFIG \cup UnlistedClasses}
    \cup {CopyNode(TRUE), CopyNode(FALSE)}

StatementQueries == {Sql(<<stmt_node>>) : stmt_node \in StatementNodes}

ValidatorQueries == Queries \cup StatementQueries

\* Texts whose last statement has no semicolon after it, and a text whose
\* statements all have one.
UnterminatedQueries ==
  { Sql(<<LastNode("SelectStmt")>>),
    Sql(<<Node("SelectStmt"), LastNode("SelectStmt")>>),
    Sql(<<Node("SelectStmt"), Node("SelectStmt")>>) }

\* The call record with what validate_query returned in the field result.
WithResult(c, validated_query) ==
  [field \in DOMAIN c \cup {"result"} |->
     IF field = "result" THEN validated_query ELSE c[field]]

\* validate_query and the policy decision for one SQL text, recorded with
\* the text.
validate_and_decide(p, c, validated_query) ==
  call' = [call EXCEPT ![p] =
             WithResult(
               [c EXCEPT !.pc = "classified",
                         !.risk = validated_query.highest_risk_level,
                         !.mode_checked = mode[DATABASE],
                         !.outcome =
                            IF ~validated_query.ok THEN "ValidationError"
                            ELSE validate_operation(DATABASE,
                                                    validated_query.highest_risk_level,
                                                    c.has_confirmation)],
               validated_query)]

ValidateQuery(p, q, has_confirmation) ==
  /\ call[p].pc \in {"idle", "done", "classified"}
  /\ validate_and_decide(p, NewCall("validate_query", DbOp(q), has_confirmation, 0),
                         validate_query(q))
  /\ statement_config' = config_after_validate(statement_config, q)
  /\ UNCHANGED <<mode, pending, nextId, issued, uses, toggled>>

NextStatements ==
  \/ \E p \in DOMAIN call, q \in ValidatorQueries, has_confirmation \in BOOLEAN :
        ValidateQuery(p, q, has_confirmation)
  \/ \E p \in DOMAIN call, q \in StatementQueries \cup UnterminatedQueries,
          has_confirmation \in BOOLEAN :
        HandleQuery(p, q, has_confirmation)
  \/ \E p \in DOMAIN call, answer \in Answers : LedgerDone(p, answer)
  \/ \E p \in DOMAIN call, answer \in Answers : ExecDone(p, answer)
  \/ \E service \in Services, enable_unsafe_mode \in BOOLEAN :
        live_dangerously(service, enable_unsafe_mode)

SpecStatements == Init /\ [][NextStatements]_vars

\* ------------------------------------------- repeated classification
\* NumCallers sessions classify texts again and again while queries are
\* handled, confirmed and the modes toggled.
RepeatedQueries ==
  { BlankQuery,
    Sql(<<Node("SelectStmt")>>),
    Sql(<<Node("DropStmt")>>),
    Sql(<<Node("RenameStmt")>>),
    Sql(<<CopyNode(FALSE)>>),
    Sql(<<CopyNode(TRUE), CopyNode(FALSE)>>) }

NextRepeated ==
  \/ \E p \in DOMAIN call, q \in RepeatedQueries : ValidateQuery(p, q, FALSE)
  \/ \E p \in DOMAIN call, q \in ConcurrentQueries \cup {Sql(<<CopyNode(TRUE)>>)} :
        HandleQuery(p, q, FALSE)
  \/ \E p \in DOMAIN call, answer \in Answers : LedgerDone(p, answer)
  \/ \E p \in DOMAIN call, answer \in Answers : ExecDone(p, answer)
  \/ \E p \in DOMAIN call, id \in ConfirmationIds : HandleConfirmation(p, id)
  \/ \E service \in Services, enable_unsafe_mode \in BOOLEAN :
        live_dangerously(service, enable_unsafe_mode)

SpecRepeated == InitConcurrent /\ [][NextRepeated]_vars

\* ------------------------------------------------- the confirmation tool
\* Variant: the tool goes to the handler of the surface whatever the user
\* answered.
ConfirmDestructiveOperation_unasked(p, operation_type, confirmation_id, user_confirmation) ==
  IF operation_type = "api"
    THEN ApiHandleConfirmation(p, confirmation_id)
    ELSE HandleConfirmation(p, confirmation_id)

\* confirm_destructive_operation: without the user's confirmation the tool
\* raises at once; with it, the handler of the surface named looks the id up.
ConfirmDestructiveOperation(p, operation_type, confirmation_id, user_confirmation) ==
  IF ~user_confirmation
    THEN /\ Ready(p)
         /\ Return(p, [NewCall("confirm_destructive_operation", NoOp, FALSE, 0)
                         EXCEPT !.outcome = "ConfirmationRequiredError"],
                   pending, nextId)
         /\ UNCHANGED <<mode, issued, uses, toggled, statement_config>>
  ELSE IF operation_type = "api"
    THEN ApiHandleConfirmation(p, confirmation_id)
    ELSE HandleConfirmation(p, confirmation_id)

\* Variant: the SQL tool tells the query manager the call is confirmed.
execute_postgresql_confirmed(p, q) == HandleQuery(p, q, TRUE)

\* execute_postgresql and send_management_api_request: the tools hand the
\* text or the request to the manager of the surface, unconfirmed.
execute_postgresql(p, q) == HandleQuery(p, q, FALSE)

send_management_api_request(p, request) == ExecuteRequest(p, request, FALSE)

\* One caller session that confirms through the tool.
NextTools ==
  \/ \E p \in DOMAIN call, q \in Queries : execute_postgresql(p, q)
  \/ \E p \in DOMAIN call, answer \in Answers : LedgerDone(p, answer)
  \/ \E p \in DOMAIN call, answer \in Answers : ExecDone(p, answer)
  \/ \E p \in DOMAIN call, request \in ApiRequests :
        send_management_api_request(p, request)
  \/ \E p \in DOMAIN call, ok \in BOOLEAN : HttpDone(p, ok)
  \/ \E p \in DOMAIN call, operation_type \in Services, id \in ConfirmationIds,
          user_confirmation \in BOOLEAN :
        ConfirmDestructiveOperation(p, operation_type, id, user_confirmation)
  \/ \E service \in Services, enable_unsafe_mode \in BOOLEAN :
        live_dangerously(service, enable_unsafe_mode)
  \/ Tick

SpecTools == Init /\ [][NextTools]_vars

\* ------------------------------------------- the pooled database client
\* AsyncSupabaseClient takes the text of a query and a readonly flag.  A text
\* is the sequence of the pieces it is written with, and writes says whether
\* the database changes anything when it runs the text read-write.
ClientText(pieces, writes) == [pieces |-> pieces, writes |-> writes]

ClientTexts ==
  { ClientText(<<"select", " ", "1">>, FALSE),
    ClientText(<<"select", " ", "'", "commit", "'">>, FALSE),
    ClientText(<<"create", " ", "table", " ", "t">>, TRUE),
    ClientText(<<"create", " ", "table", " ", "rollback", "_log">>, TRUE),
    ClientText(<<"Begin", ";", "create", " ", "table", " ", "t", ";", "Commit">>, TRUE) }

\* str.upper on a piece of text.
upper(piece) ==
  CASE piece \in {"begin", "Begin"} -> "BEGIN"
    [] piece \in {"commit", "Commit"} -> "COMMIT"
    [] piece = "rollback" -> "ROLLBACK"
    [] piece = "select" -> "SELECT"
    [] piece = "create" -> "CREATE"
    [] piece = "table" -> "TABLE"
    [] piece = "t" -> "T"
    [] piece = "_log" -> "_LOG"
    [] OTHER -> piece

\* validate_transaction_control: one of the three words occurs somewhere in
\* the upper-cased text, as a word of its own or inside another.
validate_transaction_control(query) ==
  \E x \in {"BEGIN", "COMMIT", "ROLLBACK"} :
     \E i \in 1..Len(query.pieces) : upper(query.pieces[i]) = x

\* _execute_with_transaction_control: the transaction the text is run in. A
\* text with transaction control of its own is run directly on the
\* connection, without a wrapper; any other in a transaction of the client.
execute_with_transaction_control(readonly, has_transaction_control) ==
  IF has_transaction_control THEN "unwrapped" ELSE Transaction(readonly)

\* The call record of the client, with the text, the flag and whether the
\* database took a write of the text.
ClientCall(c, query, readonly, written) ==
  [field \in DOMAIN c \cup {"text", "readonly", "written"} |->
     CASE field = "text" -> query
       [] field = "readonly" -> readonly
       [] field = "written" -> written
       [] OTHER -> c[field]]

\* execute_query_async of the pooled client up to the await of conn.fetch.
ExecuteQueryAsync(p, query, readonly) ==
  /\ Ready(p)
  /\ call' = [call EXCEPT ![p] =
                ClientCall([IdleCall EXCEPT
                              !.pc = "fetch", !.entry = "execute_query_async",
                              !.stmts = "sent",
                              !.stmts_tx = execute_with_transaction_control(
                                             readonly, validate_transaction_control(query)),
                              !.stmts_mode = mode[DATABASE]],
                           query, readonly, FALSE)]
  /\ UNCHANGED <<mode, pending, nextId, issued, uses, toggled, statement_config>>

\* What the database answers: a write inside a read-only transaction is
\* refused; anything else runs, or fails with the error the driver reports.
database_answer(c, answer) ==
  IF c.text.writes /\ c.stmts_tx = "readonly"
    THEN "ReadOnlySQLTransactionError" ELSE answer

\* conn.fetch comes back: the rows, or the driver's exception converted by
\* _handle_postgres_error.
fetch_done(c, raised) ==
  IF raised = NoError
    THEN [c EXCEPT !.pc = "done", !.stmts = "ok", !.outcome = "ok",
                   !.written = c.text.writes]
    ELSE [c EXCEPT !.pc = "done", !.stmts = "failed",
                   !.outcome = handle_postgres_error(raised)]

FetchDone(p, answer) ==
  /\ call[p].pc = "fetch"
  /\ call' = [call EXCEPT ![p] = fetch_done(call[p], database_answer(call[p], answer))]
  /\ UNCHANGED <<mode, pending, nextId, issued, uses, toggled, statement_config>>

\* NumCallers sessions share the pool of the client.
NextDatabaseClient ==
  \/ \E p \in DOMAIN call, query \in ClientTexts, readonly \in BOOLEAN :
        ExecuteQueryAsync(p, query, readonly)
  \/ \E p \in DOMAIN call, answer \in Answers : FetchDone(p, answer)

SpecDatabaseClient == InitConcurrent /\ [][NextDatabaseClient]_vars

\* ------------------------------------------------------- the API client
\* What the HTTP client gives back for a request: a response with a status
\* code and a body that is JSON or not, or no response at all (status 0).
Responses ==
  {[status |-> status, json |-> json] : status \in {200, 404, 500, 503}, json \in BOOLEAN}
    \cup {[status |-> 0, json |-> FALSE]}

\* APIClient.execute_request from the response on: a connection error and a
\* 4xx status are raised; for any other status the body is parsed and
\* returned, and a body that is not JSON raises APIResponseError.
client_execute_request(response) ==
  IF response.status = 0 THEN "APIConnectionError"
  ELSE IF 400 <= response.status /\ response.status < 500 THEN "APIClientError"
  ELSE IF response.json THEN "ok"
  ELSE "APIResponseError"

\* The request comes back from the HTTP client with a response.
HttpResponded(p, response) ==
  /\ call[p].pc = "http"
  /\ Return(p, WithResult([call[p] EXCEPT
                             !.http = IF client_execute_request(response) = "ok"
                                        THEN "ok" ELSE "failed",
                             !.outcome = client_execute_request(response)],
                          response),
            pending, nextId)
  /\ UNCHANGED <<mode, issued, uses, toggled, statement_config>>

\* Requests whose path_params hold a value with a slash in it: the template
\* names no route of the table, the path with the value put in does.
SlashRequests ==
  { ApiOp("DELETE", <<"v1", "{id}">>, << <<"id", <<"projects", ProjectRef>> >> >>),
    ApiOp("POST", <<"v1", "projects", "{ref}", "{slug}">>,
          << <<"slug", <<"restore", "cancel">> >> >>) }

NextApiClient ==
  \/ \E p \in DOMAIN call, request \in ApiRequests \cup SlashRequests,
          has_confirmation \in BOOLEAN :
        ExecuteRequest(p, request, has_confirmation)
  \/ \E p \in DOMAIN call, response \in Responses : HttpResponded(p, response)
  \/ \E service \in Services, enable_unsafe_mode \in BOOLEAN :
        live_dangerously(service, enable_unsafe_mode)

SpecApiClient == Init /\ [][NextApiClient]_vars

\* ---------------------------------------------------------------- claims
\* Something of the call went to an execution client.
Sent(c) == c.ledger # "none" \/ c.stmts # "none" \/ c.http # "none"

NotFound(c) ==
  /\ c.pc = "done"
  /\ ~c.got
  /\ ~Sent(c)
  /\ c.minted = 0
  /\ c.outcome = IF c.entry = "handle_confirmation"
                   THEN "OperationNotAllowedError" ELSE "ValueError"

\* C1: an operation classified EXTREME fails with OperationNotAllowedError on
\* either surface, in either mode, with or without has_confirmation; nothing
\* of it reaches an execution client, and it never gets a confirmation id.
C1_ExtremeNeverAllowed ==
  /\ \A p \in DOMAIN call :
       call[p].risk = EXTREME =>
         /\ call[p].pc = "done"
         /\ call[p].outcome = "OperationNotAllowedError"
         /\ ~Sent(call[p])
         /\ call[p].minted = 0
  /\ \A id \in ConfirmationIds :
       issued[id].surface = API =>
         api_get_risk_level(issued[id].method, issued[id].path) # EXTREME

C1_Witness ==
  \E p \in DOMAIN call :
     /\ call[p].risk = EXTREME
     /\ call[p].mode_checked = UNSAFE
     /\ call[p].has_confirmation
     /\ call[p].outcome = "OperationNotAllowedError"

\* C2: a HIGH-risk operation reaches an execution client only if the mode of
\* its surface was UNSAFE at the policy check and the call carried
\* has_confirmation; checked in UNSAFE mode without confirmation it ends with
\* ConfirmationRequiredError, checked in SAFE mode with
\* OperationNotAllowedError, and in both nothing was sent.
C2_HighNeedsUnsafeAndConfirmation ==
  \A p \in DOMAIN call :
     call[p].risk = HIGH =>
       /\ Sent(call[p]) => call[p].mode_checked = UNSAFE /\ call[p].has_confirmation
       /\ call[p].mode_checked = UNSAFE /\ ~call[p].has_confirmation =>
            /\ call[p].pc = "done"
            /\ call[p].outcome = "ConfirmationRequiredError"
            /\ ~Sent(call[p])
       /\ call[p].mode_checked = SAFE =>
            /\ call[p].pc = "done"
            /\ call[p].outcome = "OperationNotAllowedError"
            /\ ~Sent(call[p])

C2_Witness ==
  \E p \in DOMAIN call :
     /\ call[p].risk = HIGH
     /\ call[p].entry = "handle_query"
     /\ call[p].has_confirmation
     /\ call[p].stmts = "ok"

\* C3: a MEDIUM-risk operation checked in SAFE mode ends with
\* OperationNotAllowedError and nothing is sent; checked in UNSAFE mode it
\* passes the policy whatever has_confirmation is: no confirmation is asked
\* for or minted, and the call goes on to its execution.
C3_MediumAllowedExactlyInUnsafe ==
  \A p \in DOMAIN call :
     call[p].risk = MEDIUM =>
       /\ call[p].mode_checked = SAFE =>
            /\ call[p].pc = "done"
            /\ call[p].outcome = "OperationNotAllowedError"
            /\ ~Sent(call[p])
       /\ call[p].mode_checked = UNSAFE =>
            /\ call[p].outcome \notin {"OperationNotAllowedError",
                                       "ConfirmationRequiredError"}
            /\ call[p].minted = 0
            /\ Sent(call[p]) \/ call[p].outcome = "ValueError"

C3_Witness ==
  \E p \in DOMAIN call :
     /\ call[p].risk = MEDIUM
     /\ call[p].entry = "handle_query"
     /\ ~call[p].has_confirmation
     /\ call[p].mode_checked = UNSAFE
     /\ call[p].outcome = "ok"

\* C4: a handle_query that ended with ConfirmationRequiredError sent neither
\* a statement nor a ledger insert to the database client, and the operation
\* stored under the id it returned is the query the call was made with.
C4_ConfirmationRequiredExecutesNothing ==
  /\ \A p \in DOMAIN call :
       /\ call[p].entry \in {"handle_query", "handle_confirmation"}
       /\ call[p].outcome = "ConfirmationRequiredError"
       => /\ call[p].pc = "done"
          /\ ~Sent(call[p])
          /\ call[p].minted \in ConfirmationIds
          /\ issued[call[p].minted].surface = DATABASE
  /\ \A id \in DOMAIN pending :
       issued[id].surface = DATABASE => pending[id].operation = issued[id]

C4_Witness ==
  \E p \in DOMAIN call :
     /\ call[p].entry = "handle_query"
     /\ call[p].outcome = "ConfirmationRequiredError"
     /\ call[p].minted \in DOMAIN pending
     /\ Len(issued[call[p].minted].query.tree) = 2

\* C5: the confirmation round trip.  A confirmation handler called in time
\* with the id of a stored query gets that query and re-runs it with
\* has_confirmation set: in UNSAFE mode it is sent to the database client.
\* An id is returned by the store at most once: a later call with the same
\* id finds nothing, fails and sends nothing.
C5_ConfirmationRoundTrip ==
  /\ \A p \in DOMAIN call :
       call[p].entry = "handle_confirmation" =>
         /\ call[p].lookup = "in_time" => call[p].got
         /\ call[p].got /\ issued[call[p].via].surface = DATABASE =>
              /\ call[p].has_confirmation
              /\ call[p].risk = HIGH
              /\ InFlight(p) => call[p].op = issued[call[p].via]
              /\ call[p].mode_checked = UNSAFE => Sent(call[p])
         /\ call[p].lookup = "absent" => NotFound(call[p])
  /\ \A id \in ConfirmationIds :
       /\ uses[id] <= 1
       /\ uses[id] = 1 => id \notin DOMAIN pending

C5_Witness ==
  \E p \in DOMAIN call :
     /\ call[p].entry = "handle_confirmation"
     /\ call[p].via \in ConfirmationIds
     /\ uses[call[p].via] = 1
     /\ issued[call[p].via].surface = DATABASE
     /\ call[p].lookup = "absent"
     /\ call[p].outcome = "OperationNotAllowedError"

\* C6: a confirmation id is consumed atomically among concurrent callers:
\* of the confirmation handlers called with one id, at most one gets the
\* operation and re-runs it; every other one finds nothing, fails with the
\* not-found error of its surface and sends nothing.
C6_AtMostOneReplayPerId ==
  /\ \A id \in ConfirmationIds : uses[id] <= 1
  /\ \A p1 \in DOMAIN call, p2 \in DOMAIN call :
       /\ p1 # p2
       /\ call[p1].via \in ConfirmationIds
       /\ call[p1].via = call[p2].via
       /\ call[p1].got
       => NotFound(call[p2])

C6_Witness ==
  \E p1 \in DOMAIN call, p2 \in DOMAIN call :
     /\ p1 # p2
     /\ call[p1].via \in ConfirmationIds
     /\ call[p1].via = call[p2].via
     /\ call[p1].entry = "handle_confirmation"
     /\ call[p1].got
     /\ call[p1].pc = "exec"
     /\ call[p2].entry = "handle_confirmation"
     /\ call[p2].pc = "done"
     /\ call[p2].outcome = "OperationNotAllowedError"

\* C7: a confirmation handler called with an id whose entry is still in the
\* store but past its expiry gets no operation: the call fails with the
\* not-found error of its surface, and nothing is sent or stored.
C7_ExpiredConfirmationNotFound ==
  \A p \in DOMAIN call :
     call[p].lookup = "late" => NotFound(call[p])

C7_Witness ==
  \E p \in DOMAIN call :
     /\ call[p].entry = "handle_confirmation"
     /\ call[p].lookup = "late"
     /\ call[p].outcome = "OperationNotAllowedError"
     /\ mode[DATABASE] = UNSAFE

\* C8: statements and ledger inserts go to the database client with
\* readonly = true exactly when the database mode is SAFE at that moment,
\* whatever the risk level of the batch; readonly = false only in UNSAFE.
C8_ReadonlyFollowsModeAtDispatch ==
  \A p \in DOMAIN call :
     /\ call[p].stmts # "none" =>
          /\ call[p].stmts_mode = SAFE => call[p].stmts_tx = "readonly"
          /\ call[p].stmts_tx = "readwrite" => call[p].stmts_mode = UNSAFE
     /\ call[p].ledger # "none" =>
          /\ call[p].ledger_mode = SAFE => call[p].ledger_tx = "readonly"
          /\ call[p].ledger_tx = "readwrite" => call[p].ledger_mode = UNSAFE

C8_Witness ==
  \E p \in DOMAIN call :
     /\ call[p].risk = LOW
     /\ call[p].stmts = "ok"
     /\ call[p].stmts_mode = SAFE
     /\ call[p].stmts_tx = "readonly"

\* C9: a batch that passed the policy check and needs cataloguing has its
\* ledger insert sent first, as a batch of its own; the caller's statements
\* are sent only after the insert came back without error, and a failed
\* insert ends the call with an error and the statements never sent.
C9_LedgerFirstAndFailClosed ==
  \A p \in DOMAIN call :
     /\ InFlight(p) /\ needs_migration(validate_query(call[p].op.query)) =>
          /\ call[p].ledger # "none"
          /\ call[p].pc = "exec" => call[p].ledger = "ok"
     /\ call[p].ledger = "sent" => call[p].pc = "ledger" /\ call[p].stmts = "none"
     /\ call[p].ledger = "failed" =>
          /\ call[p].pc = "done"
          /\ call[p].outcome \in DriverErrors
          /\ call[p].stmts = "none"
     /\ call[p].stmts # "none" => call[p].ledger \in {"none", "ok"}

C9_Witness ==
  \E p \in DOMAIN call :
     /\ call[p].pc = "done"
     /\ call[p].ledger = "failed"
     /\ call[p].stmts = "none"
     /\ call[p].outcome \in DriverErrors

\* C10: a call made with SQL text that holds a transaction-control statement,
\* alone or anywhere in a batch, ends with ValidationError before the policy
\* check, in either mode, and nothing of the batch is sent.
C10_TransactionControlRejected ==
  /\ \A p \in DOMAIN call :
       call[p].tcl =>
         /\ call[p].pc = "done"
         /\ call[p].outcome = "ValidationError"
         /\ call[p].risk = 0
         /\ ~Sent(call[p])
         /\ call[p].minted = 0
  /\ \A id \in DOMAIN pending : ~HasTransactionControl(pending[id].operation)

C10_Witness ==
  \E p \in DOMAIN call :
     /\ call[p].tcl
     /\ call[p].outcome = "ValidationError"
     /\ mode[DATABASE] = UNSAFE
     /\ call[p].has_confirmation

\* C11: the mode of a surface changes only in a step of the toggle tool: no
\* step of handle_query, handle_migration, handle_confirmation or
\* execute_request, whether the call goes on, returns or raises, changes it.
C11_ModeChangesOnlyByToggle ==
  [][mode' # mode =>
       \E service \in Services, enable_unsafe_mode \in BOOLEAN :
          live_dangerously(service, enable_unsafe_mode)]_vars

C11_Witness ==
  \E p \in DOMAIN call :
     /\ call[p].entry = "handle_confirmation"
     /\ call[p].ledger = "ok"
     /\ call[p].outcome \in DriverErrors
     /\ call[p].mode_checked = UNSAFE
     /\ mode[DATABASE] = UNSAFE
     /\ mode[API] = SAFE

\* C12: as long as the toggle tool has not been called, the mode of the
\* database surface and of the API surface is SAFE.
C12_DefaultModeIsSafe ==
  ~toggled => \A client_type \in ClientType : mode[client_type] = SAFE

C12_Witness ==
  /\ ~toggled
  /\ \E p \in DOMAIN call :
       /\ call[p].entry = "execute_request"
       /\ call[p].risk = MEDIUM
       /\ call[p].mode_checked = SAFE
       /\ call[p].outcome = "OperationNotAllowedError"

\* C13: a call of the toggle tool for one service sets the mode of that
\* surface to the mode asked for and leaves the mode of the other surface as
\* it was.
C13_ToggleSetsOneSurface ==
  [][\A service \in Services, enable_unsafe_mode \in BOOLEAN :
        live_dangerously(service, enable_unsafe_mode) =>
          /\ mode'[IF service = "api" THEN API ELSE DATABASE]
               = (IF enable_unsafe_mode THEN UNSAFE ELSE SAFE)
          /\ mode'[IF service = "api" THEN DATABASE ELSE API]
               = mode[IF service = "api" THEN DATABASE ELSE API]]_vars

C13_Witness ==
  /\ toggled
  /\ mode[API] = UNSAFE
  /\ mode[DATABASE] = SAFE
  /\ \E p \in DOMAIN call :
       /\ call[p].entry = "handle_query"
       /\ call[p].risk = MEDIUM
       /\ call[p].mode_checked = SAFE
       /\ call[p].outcome = "OperationNotAllowedError"

\* The policy of section 4.3 as a table: the operation passes the check.
PassesPolicy(risk_level, mode_, has_confirmation) ==
  \/ risk_level = LOW
  \/ risk_level = MEDIUM /\ mode_ = UNSAFE
  \/ risk_level = HIGH /\ mode_ = UNSAFE /\ has_confirmation

\* C14: a call whose SQL text failed validation ends with ValidationError
\* before the policy check; a call whose operation the policy check refused
\* ends with the error of the policy check; in both the error is the outcome
\* of the call and no ledger insert, statement or HTTP request was sent.
C14_FailureShortCircuits ==
  \A p \in DOMAIN call :
     /\ call[p].outcome = "ValidationError" =>
          /\ call[p].pc = "done"
          /\ call[p].risk = 0
          /\ ~Sent(call[p])
     /\ InFlight(p) /\ call[p].op.surface = DATABASE =>
          validate_query(call[p].op.query).ok
     /\ call[p].risk # 0
        /\ ~PassesPolicy(call[p].risk, call[p].mode_checked, call[p].has_confirmation) =>
          /\ call[p].pc = "done"
          /\ call[p].outcome \in {"OperationNotAllowedError", "ConfirmationRequiredError"}
          /\ ~Sent(call[p])

C14_Witness ==
  \E p \in DOMAIN call :
     /\ call[p].entry = "handle_query"
     /\ call[p].outcome = "ValidationError"
     /\ ~call[p].tcl
     /\ mode[DATABASE] = UNSAFE
     /\ call[p].has_confirmation

\* The error kinds of the safety manager (SafetyError and its subclasses).
SafetyErrors ==
  {"SafetyError", "OperationNotAllowedError", "ConfirmationRequiredError"}

\* C15: a confirmation handler, of the database or of the API surface,
\* called with an id that is absent from the store or expired ends with a
\* safety error and sends nothing to an execution client.
C15_UnknownIdIsSafetyError ==
  \A p \in DOMAIN call :
     /\ call[p].entry \in {"handle_confirmation", "api_handle_confirmation"}
     /\ call[p].lookup \in {"absent", "late"}
     => /\ call[p].pc = "done"
        /\ ~Sent(call[p])
        /\ call[p].outcome \in SafetyErrors

C15_Witness ==
  \E p \in DOMAIN call :
     /\ call[p].entry = "api_handle_confirmation"
     /\ call[p].lookup = "absent"
     /\ call[p].outcome = "ValueError"
     /\ mode[API] = UNSAFE

\* C16: on each API entry point (execute_request, the API confirmation
\* handler that re-runs it, and handle_request) a request classified HIGH
\* while the API surface is UNSAFE goes to the HTTP client only if the call
\* carries a confirmation; without one the call ends with
\* ConfirmationRequiredError.
C16_ApiHighNeedsConfirmation ==
  \A p \in DOMAIN call :
     /\ call[p].entry \in {"execute_request", "api_handle_confirmation", "handle_request"}
     /\ call[p].risk = HIGH
     /\ call[p].mode_checked = UNSAFE
     => /\ call[p].http # "none" => call[p].has_confirmation
        /\ ~call[p].has_confirmation =>
             /\ call[p].pc = "done"
             /\ call[p].outcome = "ConfirmationRequiredError"

C16_Witness ==
  \E p \in DOMAIN call :
     /\ call[p].entry = "handle_request"
     /\ call[p].risk = HIGH
     /\ call[p].mode_checked = UNSAFE
     /\ ~call[p].has_confirmation
     /\ call[p].http = "ok"
     /\ call[p].outcome = "ok"

Classified(p) == call[p].pc = "classified"

\* The risk levels whose table holds a template the code matches to the
\* request.
MatchedLevels(method, path) ==
  {risk_level \in DOMAIN PATH_SAFETY_CONFIG :
     \E template \in Templates(risk_level, method) :
        convert_pattern_to_regex(template, path)}

Highest(levels) == CHOOSE l \in levels : \A other \in levels : other <= l

C18_UnlistedIsLowAndAllowed ==
  \A p \in DOMAIN call :
     Classified(p) /\ MatchedLevels(call[p].op.method, call[p].op.path) = {} =>
       /\ call[p].risk = LOW
       /\ call[p].outcome = "allowed"

C18_Witness ==
  \E p \in DOMAIN call :
     /\ Classified(p)
     /\ call[p].op.method = "GET"
     /\ call[p].op.path = <<"v1", "projects", "abc", "health">>
     /\ ~toggled
     /\ call[p].risk = MEDIUM
     /\ call[p].outcome = "OperationNotAllowedError"

\* The path is the template with one non-empty segment in the place of each
\* named placeholder (a segment holds no slash), over the whole path.
IsInstance(path, template) ==
  /\ Len(path) = Len(template)
  /\ \A i \in 1..Len(template) :
        IF template[i] \in PlaceholderSegments
          THEN path[i] # ""
          ELSE path[i] = template[i]

\* C19: the classifier matches a path to a template exactly when the path
\* is an instance of the template, whatever the names of its placeholders;
\* so a request that is an instance of a template of some level is
\* classified at that level or above.
C19_InstancesMatchTheirTemplate ==
  \A p \in DOMAIN call :
     Classified(p) =>
       \A risk_level \in DOMAIN PATH_SAFETY_CONFIG :
          \A template \in Templates(risk_level, call[p].op.method) :
             /\ convert_pattern_to_regex(template, call[p].op.path)
                  <=> IsInstance(call[p].op.path, template)
             /\ IsInstance(call[p].op.path, template) => call[p].risk >= risk_level

C19_Witness ==
  \E p \in DOMAIN call :
     /\ Classified(p)
     /\ call[p].op.method = "DELETE"
     /\ call[p].op.path =
          <<"v1", "projects", "abc", "config", "auth", "sso", "providers", "abc">>
     /\ call[p].risk = MEDIUM
     /\ call[p].mode_checked = UNSAFE
     /\ ~call[p].has_confirmation
     /\ call[p].outcome = "allowed"

\* The risk levels of the statements of a batch, as a set.
StatementRiskLevels(tree) ==
  {classify_statement(tree[i]).risk_level : i \in 1..Len(tree)}

IsMaximum(risk_level, levels) ==
  /\ risk_level \in levels
  /\ \A other \in levels : other <= risk_level

\* C20: the risk level a batch is checked with is the greatest risk level
\* among its statements, in whatever order they stand, and the policy
\* decision is taken on it: a batch of a SELECT and a DROP, in either order,
\* is checked as HIGH, runs only in UNSAFE mode with a confirmation, and
\* without one has a confirmation minted for it.
C20_BatchRiskIsMaximum ==
  /\ \A p \in DOMAIN call :
       InFlight(p) /\ call[p].op.surface = DATABASE /\ call[p].op.query.tree # <<>> =>
         /\ IsMaximum(call[p].risk, StatementRiskLevels(call[p].op.query.tree))
         /\ PassesPolicy(call[p].risk, call[p].mode_checked, call[p].has_confirmation)
         /\ (\E i \in 1..Len(call[p].op.query.tree) :
                call[p].op.query.tree[i].type = "DropStmt") => call[p].risk = HIGH
  /\ \A p \in DOMAIN call :
       /\ call[p].minted \in ConfirmationIds
       /\ issued[call[p].minted].surface = DATABASE
       => /\ call[p].risk = HIGH
          /\ IsMaximum(HIGH, StatementRiskLevels(issued[call[p].minted].query.tree))

C20_Witness ==
  \E p \in DOMAIN call :
     /\ call[p].pc = "exec"
     /\ call[p].op.surface = DATABASE
     /\ call[p].op.query.tree = <<Node("DropStmt"), Node("SelectStmt")>>
     /\ call[p].risk = HIGH
     /\ call[p].has_confirmation
     /\ call[p].mode_checked = UNSAFE

\* A validated SQL text of one statement, held by a classification record.
ClassifiedStatement(p) ==
  /\ Classified(p)
  /\ call[p].op.surface = DATABASE
  /\ call[p].op.query.parse = "ok"
  /\ Len(call[p].op.query.tree) = 1

\* A handle_query call in flight for a text of one statement.
DispatchedStatement(p) ==
  /\ InFlight(p)
  /\ call[p].op.surface = DATABASE
  /\ Len(call[p].op.query.tree) = 1

Unlisted(stmt_node) == stmt_node.type \notin DOMAIN STATEMENT_CONFIG

\* What the claim promises for a statement: OTHER, MEDIUM, turned down in
\* SAFE mode.
ClassifiedOtherMedium(c) ==
  /\ c.result.ok
  /\ c.result.statements[1].category = "OTHER"
  /\ c.result.statements[1].risk_level = MEDIUM
  /\ c.result.statements[1].risk_level # LOW
  /\ c.risk = MEDIUM
  /\ c.mode_checked = SAFE => c.outcome = "OperationNotAllowedError"

\* C21 as stated: every statement whose class STATEMENT_CONFIG does not list
\* is classified OTHER with risk MEDIUM, never LOW, and is rejected in SAFE
\* mode.
C21_UnlistedIsOtherMedium ==
  /\ \A p \in DOMAIN call :
       ClassifiedStatement(p) /\ Unlisted(call[p].op.query.tree[1])
         => ClassifiedOtherMedium(call[p])
  /\ \A p \in DOMAIN call :
       DispatchedStatement(p) /\ Unlisted(call[p].op.query.tree[1])
         => call[p].mode_checked = UNSAFE

\* C21: every statement whose class STATEMENT_CONFIG does not list, COPY
\* aside, is classified OTHER with risk MEDIUM, never LOW, and is rejected in
\* SAFE mode: it is dispatched only when the mode checked was UNSAFE.
C21_UnlistedExceptCopyIsOtherMedium ==
  /\ \A p \in DOMAIN call :
       /\ ClassifiedStatement(p)
       /\ Unlisted(call[p].op.query.tree[1])
       /\ call[p].op.query.tree[1].type # "CopyStmt"
       => ClassifiedOtherMedium(call[p])
  /\ \A p \in DOMAIN call :
       /\ DispatchedStatement(p)
       /\ Unlisted(call[p].op.query.tree[1])
       /\ call[p].op.query.tree[1].type # "CopyStmt"
       => call[p].mode_checked = UNSAFE

C21_Witness ==
  \E p \in DOMAIN call :
     /\ ClassifiedStatement(p)
     /\ call[p].op.query.tree[1].type = "RenameStmt"
     /\ call[p].result.statements[1].category = "OTHER"
     /\ call[p].mode_checked = SAFE
     /\ call[p].outcome = "OperationNotAllowedError"

\* C22: a text of one SELECT statement is classified DQL, risk LOW, not to
\* be catalogued; the policy lets it through in SAFE mode as in any mode, as
\* it does every LOW-risk text; handle_query sends it to the database with
\* no ledger insert before it.
C22_SelectIsLowAndAllowed ==
  /\ \A p \in DOMAIN call :
       ClassifiedStatement(p) /\ call[p].op.query.tree[1].type = "SelectStmt" =>
         /\ call[p].result.ok
         /\ Len(call[p].result.statements) = 1
         /\ call[p].result.statements[1].category = "DQL"
         /\ call[p].result.statements[1].risk_level = LOW
         /\ ~call[p].result.statements[1].needs_migration
         /\ call[p].risk = LOW
         /\ call[p].outcome = "allowed"
  /\ \A p \in DOMAIN call :
       Classified(p) /\ call[p].op.surface = DATABASE
         /\ call[p].result.ok /\ call[p].risk = LOW
         => call[p].outcome = "allowed"
  /\ \A p \in DOMAIN call :
       DispatchedStatement(p) /\ call[p].op.query.tree[1].type = "SelectStmt" =>
         /\ call[p].risk = LOW
         /\ call[p].ledger = "none"
         /\ call[p].stmts = "sent"

C22_Witness ==
  \E p \in DOMAIN call :
     /\ DispatchedStatement(p)
     /\ call[p].op.query.tree[1].type = "SelectStmt"
     /\ call[p].mode_checked = SAFE
     /\ ~call[p].has_confirmation
     /\ call[p].stmts = "sent"
     /\ call[p].stmts_tx = "readonly"

\* The statement classes of CREATE, ALTER, CREATE INDEX, CREATE VIEW and
\* COMMENT statements, and of DROP and TRUNCATE statements.
CreateAlterClasses ==
  { "CreateStmt", "CreateTableAsStmt", "CreateSchemaStmt", "CreateExtensionStmt",
    "AlterTableStmt", "AlterDomainStmt", "CreateFunctionStmt", "IndexStmt",
    "CreateTrigStmt", "ViewStmt", "CommentStmt", "CreateRoleStmt", "AlterRoleStmt",
    "CreateSeqStmt", "RenameStmt" }

DropClasses == {"DropStmt", "TruncateStmt", "DropRoleStmt", "DropOwnedStmt"}

\* The classification of the one statement of the text is the given risk
\* level, to be catalogued.
CataloguedAt(c, risk_level) ==
  /\ c.result.ok
  /\ c.result.statements[1].risk_level = risk_level
  /\ c.result.statements[1].needs_migration
  /\ c.risk = risk_level

\* C23 as stated: every CREATE / ALTER / INDEX / VIEW / COMMENT statement is
\* classified MEDIUM and to be catalogued, every DROP / TRUNCATE / DROP ROLE
\* statement HIGH and to be catalogued.
C23_DdlIsCatalogued ==
  \A p \in DOMAIN call :
     ClassifiedStatement(p) =>
       /\ call[p].op.query.tree[1].type \in CreateAlterClasses
            => CataloguedAt(call[p], MEDIUM)
       /\ call[p].op.query.tree[1].type \in DropClasses
            => CataloguedAt(call[p], HIGH)

\* C23: every CREATE / ALTER / INDEX / VIEW / COMMENT statement of a class
\* STATEMENT_CONFIG lists is classified MEDIUM and to be catalogued, every
\* DROP / TRUNCATE / DROP ROLE statement of a listed class HIGH and to be
\* catalogued, and handle_query sends the ledger insert for them; such a
\* statement of a class the table does not list gets the default: OTHER,
\* MEDIUM, not catalogued.
C23_ListedDdlIsCatalogued ==
  /\ \A p \in DOMAIN call :
       ClassifiedStatement(p) /\ ~Unlisted(call[p].op.query.tree[1]) =>
         /\ call[p].op.query.tree[1].type \in CreateAlterClasses
              => CataloguedAt(call[p], MEDIUM)
         /\ call[p].op.query.tree[1].type \in DropClasses
              => CataloguedAt(call[p], HIGH)
  /\ \A p \in DOMAIN call :
       /\ ClassifiedStatement(p)
       /\ Unlisted(call[p].op.query.tree[1])
       /\ call[p].op.query.tree[1].type \in CreateAlterClasses \cup DropClasses
       => /\ call[p].result.statements[1].category = "OTHER"
          /\ call[p].result.statements[1].risk_level = MEDIUM
          /\ ~call[p].result.statements[1].needs_migration
  /\ \A p \in DOMAIN call :
       /\ DispatchedStatement(p)
       /\ ~Unlisted(call[p].op.query.tree[1])
       /\ call[p].op.query.tree[1].type \in CreateAlterClasses \cup DropClasses
       => call[p].ledger # "none"

C23_Witness ==
  /\ \E p \in DOMAIN call :
       /\ DispatchedStatement(p)
       /\ call[p].op.query.tree[1].type = "TruncateStmt"
       /\ call[p].risk = HIGH
       /\ call[p].ledger = "ok"
       /\ call[p].stmts = "sent"

\* C24: classification is a function of the text alone.  Whatever was
\* classified, handled, confirmed or toggled since, two classifications of
\* the same text hold the same result, classifying a text again now gives
\* the result recorded for it, and the classification table is as it was at
\* start.
C24_ClassificationIsPure ==
  /\ \A p1, p2 \in DOMAIN call :
       /\ Classified(p1) /\ call[p1].op.surface = DATABASE
       /\ Classified(p2) /\ call[p2].op.surface = DATABASE
       /\ call[p1].op.query = call[p2].op.query
       => call[p1].result = call[p2].result
  /\ \A p \in DOMAIN call :
       Classified(p) /\ call[p].op.surface = DATABASE
         => validate_query(call[p].op.query) = call[p].result
  /\ statement_config = STATEMENT_CONFIG

C24_Witness ==
  \E p1, p2 \in DOMAIN call :
     /\ p1 # p2
     /\ Classified(p1) /\ Classified(p2)
     /\ call[p1].op.query = Sql(<<CopyNode(TRUE), CopyNode(FALSE)>>)
     /\ call[p2].op.query = call[p1].op.query
     /\ call[p1].mode_checked # call[p2].mode_checked
     /\ call[p1].result.ok
     /\ uses[1] = 1

\* C25 as stated: validate_query either raises ValidationError or returns a
\* result with one statement or more; blank text and text without a
\* statement are rejected.
C25_ResultHasAStatementOrIsRejected ==
  \A p \in DOMAIN call :
     Classified(p) /\ call[p].op.surface = DATABASE =>
       /\ \/ ~call[p].result.ok /\ call[p].outcome = "ValidationError"
          \/ call[p].result.ok /\ Len(call[p].result.statements) >= 1
       /\ \/ call[p].op.query.parse \in {"blank", "no_tree"}
          \/ call[p].op.query.tree = <<>>
          => call[p].outcome = "ValidationError"

C25_Witness ==
  \E p \in DOMAIN call :
     /\ Classified(p)
     /\ call[p].op.query = NoTreeQuery
     /\ call[p].result.ok
     /\ call[p].result.statements = <<>>
     /\ call[p].risk = LOW
     /\ call[p].mode_checked = SAFE
     /\ call[p].outcome = "allowed"

\* ------------------------------------------------------------------- C26
\* C26: the result of a successful execution holds exactly one row-set per
\* statement of the validated batch, in statement order: when the statements
\* of a call come back from the database client without an error, the
\* results of the call are the row-sets of statement 1, 2, ... up to the
\* number of statements of the text.
C26_OneRowSetPerStatement ==
  [][\A p \in DOMAIN call :
       (/\ call[p].pc = "exec"
        /\ call'[p].pc = "done"
        /\ call'[p].outcome = "ok")
       => call'[p].results = [i \in 1..Len(call[p].op.query.tree) |-> i]]_vars

\* A handled text was executed without an error and its result holds no
\* row-set at all.
C26_Witness ==
  \E p \in DOMAIN call :
     /\ call[p].pc = "done"
     /\ call[p].entry = "handle_query"
     /\ call[p].stmts = "ok"
     /\ call[p].outcome = "ok"
     /\ call[p].results = <<>>

\* ------------------------------------------------------------------- C29
\* C29: every database error raised while statements are executed through
\* the execution client reaches the caller as PermissionError (insufficient
\* privilege) or as QueryError (query and schema errors), never as the
\* exception of the driver: a handler whose statements or ledger insert
\* failed ends with one of the kinds _handle_postgres_error converts to.
C29_DriverErrorsAreConverted ==
  \A p \in DOMAIN call :
     (/\ call[p].pc = "done"
      /\ (call[p].stmts = "failed" \/ call[p].ledger = "failed"))
     => call[p].outcome \in {handle_postgres_error(error) : error \in DriverErrors}

\* The statements of a handled text failed with insufficient privilege and
\* the handler ended with the exception of the driver.
C29_Witness ==
  \E p \in DOMAIN call :
     /\ call[p].pc = "done"
     /\ call[p].stmts = "failed"
     /\ call[p].outcome = "InsufficientPrivilegeError"

\* ------------------------------------------------------------------- C27
\* C27: confirm_destructive_operation called with user_confirmation = false
\* raises ConfirmationRequiredError for every operation_type and
\* confirmation_id, and it neither looks the stored confirmation up, nor
\* takes it from the store, nor executes anything: the store, the history of
\* lookups and the modes are as before, and the call ends at once with
\* nothing sent to the database or to the API.
C27_UnconfirmedToolCallRaises ==
  [][\A p \in DOMAIN call, operation_type \in Services, id \in ConfirmationIds :
       ConfirmDestructiveOperation(p, operation_type, id, FALSE)
       => /\ call'[p].pc = "done"
          /\ call'[p].outcome = "ConfirmationRequiredError"
          /\ call'[p].lookup = "none"
          /\ ~call'[p].got
          /\ call'[p].minted = 0
          /\ call'[p].ledger = "none"
          /\ call'[p].stmts = "none"
          /\ call'[p].http = "none"
          /\ pending' = pending
          /\ uses' = uses
          /\ mode' = mode]_vars

\* The tool was called without the user's confirmation while a confirmation
\* was stored and in time, and the confirmation is still stored.
C27_Witness ==
  \E p \in DOMAIN call, id \in DOMAIN pending :
     /\ call[p].pc = "done"
     /\ call[p].entry = "confirm_destructive_operation"
     /\ call[p].outcome = "ConfirmationRequiredError"
     /\ Lookup(id) = "in_time"
     /\ uses[id] = 0

\* ------------------------------------------------------------------- C28
\* The call of caller p that this step ended was blocked for lack of a
\* confirmation: HIGH risk, UNSAFE mode, no confirmation, and the id it
\* carries is the fresh one, now in the store.
MintedForBlockedHigh(p) ==
  /\ call'[p] # call[p]
  /\ call'[p].pc = "done"
  /\ call'[p].outcome = "ConfirmationRequiredError"
  /\ call'[p].risk = HIGH
  /\ call'[p].mode_checked = UNSAFE
  /\ ~call'[p].has_confirmation
  /\ call'[p].minted = nextId
  /\ nextId' = nextId + 1
  /\ DOMAIN pending' = DOMAIN pending \cup {nextId}

\* C28: a pending confirmation is created only when a HIGH-risk operation is
\* blocked for lack of confirmation in UNSAFE mode: a step that mints an id or
\* puts an entry in the store is the end of such a call, and a call that ends
\* with OperationNotAllowedError (MEDIUM or HIGH in SAFE mode, EXTREME in any
\* mode) or with a validation error carries no id, mints none and adds no
\* entry to the store.
C28_ConfirmationOnlyForBlockedHigh ==
  [][/\ (nextId' # nextId \/ ~(DOMAIN pending' \subseteq DOMAIN pending))
          => \E p \in DOMAIN call : MintedForBlockedHigh(p)
     /\ \A p \in DOMAIN call :
          (/\ call'[p] # call[p]
           /\ call'[p].pc = "done"
           /\ call'[p].outcome \in {"OperationNotAllowedError", "ValidationError"})
          => /\ call'[p].minted = 0
             /\ nextId' = nextId
             /\ DOMAIN pending' \subseteq DOMAIN pending]_vars

\* A HIGH-risk operation was rejected in SAFE mode, and no id has been minted
\* and nothing is stored.
C28_Witness ==
  \E p \in DOMAIN call :
     /\ call[p].pc = "done"
     /\ call[p].outcome = "OperationNotAllowedError"
     /\ call[p].risk = HIGH
     /\ call[p].mode_checked = SAFE
     /\ call[p].minted = 0
     /\ nextId = 1
     /\ pending = <<>>

\* ------------------------------------------------------------------- C30
\* C30: a write query fails in safe mode: every text the database client
\* executes with readonly = true runs inside a read-only transaction,
\* whatever the text contains, and no write of such a text takes effect.
C30_ReadonlyRunsReadOnly ==
  \A p \in DOMAIN call :
     (/\ call[p].entry = "execute_query_async"
      /\ call[p].readonly)
     => /\ call[p].stmts_tx = "readonly"
        /\ ~call[p].written

\* A text that creates a table was executed with readonly = true, outside
\* any read-only transaction, and the table was created.
C30_Witness ==
  \E p \in DOMAIN call :
     /\ call[p].entry = "execute_query_async"
     /\ call[p].pc = "done"
     /\ call[p].readonly
     /\ call[p].text.writes
     /\ call[p].stmts_tx = "unwrapped"
     /\ call[p].outcome = "ok"
     /\ call[p].written

\* ------------------------------------------------------------------- C31
\* C31: the management-API client handles 5xx responses as errors: a request
\* that came back with a 5xx status ends with a server error, and is never
\* returned to the caller as a successful result.
C31_ServerErrorIsRaised ==
  \A p \in DOMAIN call :
     (/\ call[p].pc = "done"
      /\ call[p].http # "none"
      /\ call[p].result.status >= 500)
     => /\ call[p].outcome = "APIServerError"
        /\ call[p].http = "failed"

\* A request came back with status 500 and a JSON body, and the call
\* returned the body as its result.
C31_Witness ==
  \E p \in DOMAIN call :
     /\ call[p].pc = "done"
     /\ call[p].http = "ok"
     /\ call[p].result.status = 500
     /\ call[p].result.json
     /\ call[p].outcome = "ok"

\* ------------------------------------------------------------------- C32
\* The confirmation handler of a surface got from the store an operation of
\* its own surface in this step of caller p.
ReplayedOn(p, id, client_type) ==
  /\ id \in DOMAIN pending
  /\ pending[id].operation.surface = client_type
  /\ call'[p].got

\* The call of caller p ended in this step with OperationNotAllowedError and
\* nothing was sent to an execution client.
RefusedUnsent(p) ==
  /\ call'[p].pc = "done"
  /\ call'[p].outcome = "OperationNotAllowedError"
  /\ call'[p].ledger = "none"
  /\ call'[p].stmts = "none"
  /\ call'[p].http = "none"

\* C32: a confirmed replay is evaluated against the mode in force when it is
\* confirmed, through the same code path as a normal call: the handler that
\* got the stored operation checks the policy with the mode of the surface at
\* that moment, and if the surface is SAFE by then (it was UNSAFE when the id
\* was given out) the confirmation fails with OperationNotAllowedError and
\* nothing is executed.
C32_ReplayUsesTheModeAtConfirmation ==
  [][\A p \in DOMAIN call, id \in ConfirmationIds :
       /\ (HandleConfirmation(p, id) /\ ReplayedOn(p, id, DATABASE))
            => /\ call'[p].has_confirmation
               /\ call'[p].risk = HIGH
               /\ call'[p].mode_checked = mode[DATABASE]
               /\ mode[DATABASE] = SAFE => RefusedUnsent(p)
       /\ (ApiHandleConfirmation(p, id) /\ ReplayedOn(p, id, API))
            => /\ call'[p].has_confirmation
               /\ call'[p].risk = HIGH
               /\ call'[p].mode_checked = mode[API]
               /\ mode[API] = SAFE => RefusedUnsent(p)]_vars

\* A query that was given a confirmation id was confirmed after the database
\* surface had gone back to SAFE, and the confirmation was refused.
C32_Witness ==
  \E p \in DOMAIN call :
     /\ call[p].pc = "done"
     /\ call[p].entry = "handle_confirmation"
     /\ call[p].got
     /\ issued[call[p].via].surface = DATABASE
     /\ call[p].mode_checked = SAFE
     /\ mode[DATABASE] = SAFE
     /\ call[p].outcome = "OperationNotAllowedError"
     /\ call[p].stmts = "none"

\* ------------------------------------------------------------------- C33
\* The call of caller p was handed to an execution client in this step.
Dispatched(p) ==
  /\ ~Sent(call[p]) \/ call[p].pc = "done"
  /\ Sent(call'[p])
  /\ call'[p].pc \in {"ledger", "exec", "http"}

\* C33: through the tools a HIGH-risk operation reaches an execution client
\* only by confirm_destructive_operation called with user_confirmation = true
\* and an id that a ConfirmationRequiredError carried before; the calls of
\* execute_postgresql and send_management_api_request are always checked
\* with has_confirmation = false.
C33_HighOnlyThroughConfirmation ==
  [][\A p \in DOMAIN call :
       /\ (Dispatched(p) /\ call'[p].risk = HIGH)
            => \E operation_type \in Services, id \in ConfirmationIds :
                  /\ ConfirmDestructiveOperation(p, operation_type, id, TRUE)
                  /\ issued[id] # NoOp
                  /\ call'[p].via = id
       /\ (call'[p] # call[p] /\ call'[p].entry \in {"handle_query", "execute_request"})
            => ~call'[p].has_confirmation]_vars

\* A DROP was sent to the database client by the confirmation tool, with the
\* id the first call had been given.
C33_Witness ==
  \E p \in DOMAIN call :
     /\ call[p].entry = "handle_confirmation"
     /\ call[p].risk = HIGH
     /\ call[p].got
     /\ issued[call[p].via].surface = DATABASE
     /\ call[p].stmts = "sent"

\* ------------------------------------------------------------------- C34
\* The path a request is sent with: the caller's path after the project ref
\* and the path_params were put in.
FinalPath(op) == replace_path_params(op.path, op.path_params).path

\* C34: the risk level under which a management-API request is admitted is
\* the risk level of the request sent: for every request handed to the HTTP
\* client, the method and the final path classify no higher than the level
\* the policy check was made with.
C34_SentRequestNoRiskierThanChecked ==
  \A p \in DOMAIN call :
     call[p].pc = "http"
     => api_get_risk_level(call[p].op.method, FinalPath(call[p].op)) <= call[p].risk

\* A DELETE was checked as MEDIUM on its template and is on its way to the
\* HTTP client with the path of the project itself, which is EXTREME.
C34_Witness ==
  \E p \in DOMAIN call :
     /\ call[p].pc = "http"
     /\ call[p].http = "sent"
     /\ call[p].risk = MEDIUM
     /\ call[p].mode_checked = UNSAFE
     /\ FinalPath(call[p].op) = <<"v1", "projects", ProjectRef>>
     /\ api_get_risk_level(call[p].op.method, FinalPath(call[p].op)) = EXTREME

\* ------------------------------------------------------------------- C35
\* The confirmation handler of one surface was given an id minted for an
\* operation of the other surface, and the store returned that operation.
CrossSurface(c) ==
  /\ c.got
  /\ \/ c.entry = "handle_confirmation" /\ issued[c.via].surface = API
     \/ c.entry = "api_handle_confirmation" /\ issued[c.via].surface = DATABASE

\* C35: a confirmation id minted for an operation of one surface never
\* causes an operation to be executed on the other surface: the confirmation
\* tool called with that id and the other operation_type fails, and nothing
\* is sent to the database client or to the HTTP client.
C35_NoCrossSurfaceExecution ==
  \A p \in DOMAIN call :
     CrossSurface(call[p])
     => /\ call[p].pc = "done"
        /\ call[p].outcome \in {"AttributeError", "TypeError"}
        /\ ~Sent(call[p])

\* The id of a query was confirmed as an API operation while the API
\* surface was UNSAFE, and the handler ended before any policy check.
C35_Witness ==
  \E p \in DOMAIN call :
     /\ CrossSurface(call[p])
     /\ call[p].entry = "api_handle_confirmation"
     /\ call[p].mode_checked = "none"
     /\ mode[API] = UNSAFE

\* ------------------------------------------------------------------- C36
\* The ledger insert of the call came back without an error: it ran in a
\* transaction of its own, which was committed when the client returned.
LedgerRowCommitted(c) == c.ledger = "ok"

\* C36: the ledger never records a change that was not applied: a
\* handle_query call whose ledger insert succeeded and whose statements then
\* failed leaves no ledger row committed, so a finished call with a
\* committed ledger row is one whose statements were executed.
C36_NoLedgerRowWithoutTheChange ==
  \A p \in DOMAIN call :
     (call[p].pc = "done" /\ LedgerRowCommitted(call[p]))
     => call[p].stmts = "ok"

\* The ledger insert of a call was committed in a read-write transaction and
\* the statements of the call then failed.
C36_Witness ==
  \E p \in DOMAIN call :
     /\ call[p].pc = "done"
     /\ call[p].ledger = "ok"
     /\ call[p].ledger_tx = "readwrite"
     /\ call[p].stmts = "failed"
     /\ call[p].outcome \in DriverErrors

\* ------------------------------------------------------------------- C37
\* The transaction kind that goes with the mode the policy decision of the
\* call was made in.
DecidedTransaction(c) == Transaction(c.mode_checked = SAFE)

\* C37: within one handle_query call the readonly flag of every execution is
\* chosen from the mode the policy decision used, even when the database
\* surface is toggled meanwhile: the ledger insert and the statements of a
\* call are both sent with that flag, so a batch admitted as MEDIUM or HIGH
\* under UNSAFE is never sent with readonly = true.
C37_ReadonlyFromTheDecidedMode ==
  \A p \in DOMAIN call :
     call[p].entry \in {"handle_query", "handle_confirmation"}
     => /\ call[p].ledger # "none" => call[p].ledger_tx = DecidedTransaction(call[p])
        /\ call[p].stmts # "none" => call[p].stmts_tx = DecidedTransaction(call[p])
        /\ (/\ call[p].stmts # "none"
            /\ call[p].risk \in {MEDIUM, HIGH}
            /\ call[p].mode_checked = UNSAFE)
           => call[p].stmts_tx = "readwrite"

\* A batch admitted as MEDIUM under UNSAFE had its ledger insert committed
\* read-write; the surface was switched to SAFE before the statements were
\* sent, and they were sent read-only.
C37_Witness ==
  \E p \in DOMAIN call :
     /\ call[p].entry = "handle_query"
     /\ call[p].risk = MEDIUM
     /\ call[p].mode_checked = UNSAFE
     /\ call[p].ledger = "ok"
     /\ call[p].ledger_tx = "readwrite"
     /\ call[p].stmts = "sent"
     /\ call[p].stmts_mode = SAFE
     /\ call[p].stmts_tx = "readonly"

\* ------------------------------------------------------------------- C38
\* C38: all statements of one validated batch are executed inside a single
\* transaction: if a statement of the batch fails, no effect of the earlier
\* statements of that batch is committed, and if none fails the effects of
\* all the statements run are committed together.
C38_BatchIsOneTransaction ==
  \A p \in DOMAIN call :
     /\ call[p].stmts = "failed" => call[p].committed = <<>>
     /\ call[p].stmts = "ok" => call[p].committed = call[p].results
     /\ call[p].stmts \in {"none", "sent"} => call[p].committed = <<>>

\* The second statement of a confirmed batch failed after the first, a
\* DROP, had run, and nothing of the batch is committed.
C38_Witness ==
  \E p \in DOMAIN call :
     /\ call[p].pc = "done"
     /\ call[p].stmts = "failed"
     /\ call[p].stmts_tx = "readwrite"
     /\ call[p].risk = HIGH
     /\ call[p].failed_at = 2
     /\ call[p].committed = <<>>
====
